---- MODULE Spec2Model ----
(***************************************************************************)
(* A model of the logic-programming engine of raphaelmansuy/adk-code:      *)
(*   - term.c / substitution.c / unification.c / inference.c               *)
(*     (terms with compounds, trail with mark/restore, all-solutions       *)
(*     resolve / resolve_query);                                           *)
(*   - prolog_data.c / prolog_unify.c / prolog_query.c                     *)
(*     (flat predicates, copy-per-branch substitutions, first-solution     *)
(*     prove / query).                                                     *)
(* Names are sequences of one-character strings, as C strings are.         *)
(***************************************************************************)
EXTENDS Integers, Sequences, FiniteSets, TLC

VARIABLES
    \* ---- inference.c: resolve_query / resolve ----
    kb,              \* KnowledgeBase: sequence of clauses [head, body]
    query_term,      \* the term handed to resolve_query
    pc,              \* "idle" | "running" | "done" | "crashed"
    stack,           \* call stack of resolve: sequence of frames
    sub,             \* the Substitution (trail): sequence of [var_name, term]
    var_counter,     \* int var_counter of resolve_query
    solution_count,  \* *solution_count
    output,          \* solutions printed so far in this query
    said_no,         \* "No." was printed at the end of this query
    run,             \* how many times resolve_query has been started
    prev_output,     \* output of the previous resolve_query call
    prev_count,      \* solution count of the previous resolve_query call
    fresh_log,       \* history: names issued by each fresh instantiation
    restored,        \* history: last restore_substitution (snapshot vs result)
    returned,        \* history: last return of resolve (trail on entry vs exit)
    \* ---- unification.c: unify called on two terms ----
    uA, uB,          \* the two argument terms
    upc,             \* "off" | "ready" | "called"
    uAB, uBA,        \* results [ok, sub] of unify(A,B,{}) and unify(B,A,{})
    \* ---- prolog_query.c: query / prove ----
    database,        \* Clause *database[] (prolog_db.c), db_size = Len
    qpc,             \* "off" | "idle" | "proving" | "crashed"
    q_goals,         \* the PredicateList of the query being run
    q_var_counter,   \* static int var_counter of prolog_query.c
    q_stack,         \* call stack of prove
    q_ret,           \* value returned by the last prove call: "none"|"true"|"false"
    q_heap,          \* Substitution objects: id -> [size, bindings, live]
    q_result,        \* what query printed last: "none" | "yes" | "no"
    q_started,       \* history: [sub_size, counter] seen when query starts
    q_count,         \* number of queries started so far
    q_uaf,           \* history: a freed Substitution was accessed / re-freed
    \* ---- parser.c / knowledge_base.c: texts parsed and clauses added ----
    p_text,          \* the text last handed to parse_term / parse_clause
    p_which,         \* the call made last: "none" | "parse_term" | ...
    p_term,          \* what parse_term returned last: [ok, term, pos]
    p_clause,        \* the clause parse_clause returned and nobody stored yet
    p_kb,            \* kb->clauses[0 .. count-1] of a KnowledgeBase
    p_capacity,      \* kb->capacity
    p_n,             \* number of texts parsed so far
    p_rejected,      \* history: the text parse_clause rejected last, if any
    \* ---- demo/prolog/main.c: lexer, parser and fact database ----
    m_text,          \* input_buffer
    m_which,         \* the step made last: "none" | "parse_term" | ...
    m_term,          \* what the parser returned last: [status, term, k]
    m_database,      \* global_database->clauses[0 .. count-1]
    m_alive,         \* FALSE once the process has called exit(1)
    m_n,             \* number of texts parsed so far
    \* ---- prolog_parser.c / prolog_db.c: files loaded, queries parsed ----
    l_text,          \* the lines or the query text handed in last
    l_which,         \* the call made last: "none" | "load_clauses_from_file" | ...
    l_ok,            \* what load_clauses_from_file returned last
    l_added,         \* history: the clauses the last step handed to add_clause
    l_query,         \* what parse_query_string returned last: [ok, goals, dangling]
    l_line,          \* number of lines fgets has read from the open file
    l_pc,            \* "idle" | "reading" (inside load_clauses_from_file)
    l_n,             \* number of calls made so far
    \* ---- unification.c / demo/prolog/main.c: unify called again and again ----
    t_sub,           \* the Substitution of substitution.c (the trail)
    t_env,           \* the Substitution list of main.c, newest node first
    t_call,          \* the call made last: [fn, t1, t2, ok, overflow, before, after]
    t_pc,            \* "ready" | "crashed"
    t_n,             \* number of calls made so far
    \* ---- substitution.c / prolog_data.c: bindings added one by one ----
    b_sub,           \* a Substitution of substitution.c
    b_flat,          \* a Substitution of prolog_data.c: bindings[0 .. size-1]
    b_call,          \* the call made last: [fn, var_name, term, ok, before, after, result]
    b_n              \* number of calls made so far

rvars == <<kb, query_term, pc, stack, sub, var_counter, solution_count,
           output, said_no, run, prev_output, prev_count, fresh_log, restored, returned>>
uvars == <<uA, uB, upc, uAB, uBA>>
qvars == <<database, qpc, q_goals, q_var_counter, q_stack, q_ret, q_heap, q_result,
           q_started, q_count, q_uaf>>
pvars == <<p_text, p_which, p_term, p_clause, p_kb, p_capacity, p_n, p_rejected>>
mvars == <<m_text, m_which, m_term, m_database, m_alive, m_n>>
lvars == <<l_text, l_which, l_ok, l_added, l_query, l_line, l_pc, l_n>>
tvars == <<t_sub, t_env, t_call, t_pc, t_n>>
bvars == <<b_sub, b_flat, b_call, b_n>>
vars  == <<rvars, uvars, qvars, pvars, mvars, lvars, tvars, bvars>>

-----------------------------------------------------------------------------
(* Names                                                                   *)

n_john == <<"j","o","h","n">>
n_jim == <<"j","i","m">>
n_jane == <<"j","a","n","e">>
n_mary == <<"m","a","r","y">>
n_pam == <<"p","a","m">>
n_bob == <<"b","o","b">>
n_parent == <<"p","a","r","e","n","t">>
n_grandparent == <<"g","r","a","n","d","p","a","r","e","n","t">>
n_ancestor == <<"a","n","c","e","s","t","o","r">>
n_male == <<"m","a","l","e">>
n_tom == <<"t","o","m">>
n_X == <<"X">>
n_Y == <<"Y">>
n_Z == <<"Z">>
n_W == <<"W">>
n_a == <<"a">>
n_b == <<"b">>
n_f == <<"f">>
n_g == <<"g">>

\* snprintf("%d") of a non-negative int: its decimal digits
Digit(d) == CASE d = 0 -> "0" [] d = 1 -> "1" [] d = 2 -> "2" [] d = 3 -> "3"
              [] d = 4 -> "4" [] d = 5 -> "5" [] d = 6 -> "6" [] d = 7 -> "7"
              [] d = 8 -> "8" [] d = 9 -> "9"

RECURSIVE FormatInt(_)
FormatInt(n) == IF n < 10 THEN <<Digit(n)>>
                ELSE FormatInt(n \div 10) \o <<Digit(n % 10)>>

-----------------------------------------------------------------------------
(* term.c                                                                  *)

\* create_term: a term with no arguments
create_term(type, name) == [type |-> type, name |-> name, args |-> <<>>]

\* create_compound_term, with its args filled in; arity is Len(args)
create_compound_term(name, args) ==
    [type |-> "COMPOUND", name |-> name, args |-> args]

Atom(name) == create_term("ATOM", name)
Var(name) == create_term("VARIABLE", name)

\* what apply_substitution yields when its recursion never ends (stack overflow)
StackOverflow == [type |-> "OVERFLOW", name |-> <<>>, args |-> <<>>]

\* the name rename_variables gives to a variable: snprintf "_G%d"
fresh_name(counter) == <<"_", "G">> \o FormatInt(counter)

RECURSIVE rename_variables_byvalue(_, _)
rename_variables_byvalue(original, counter) ==
    IF original.type = "VARIABLE"
    THEN [term |-> Var(fresh_name(counter)), counter |-> counter]
    ELSE IF original.type = "COMPOUND" /\ Len(original.args) > 0
    THEN [term |-> [original EXCEPT !.args =
                      [i \in 1..Len(original.args) |->
                         rename_variables_byvalue(original.args[i], counter).term]],
          counter |-> counter]
    ELSE [term |-> original, counter |-> counter]

RECURSIVE rename_variables(_, _)
\* deep copy with every VARIABLE node renamed to _G<counter++>;
\* returns the copy and the advanced counter
rename_variables(original, counter) ==
    IF original.type = "VARIABLE"
    THEN [term |-> Var(fresh_name(counter)), counter |-> counter + 1]
    ELSE IF original.type = "COMPOUND" /\ Len(original.args) > 0
    THEN LET RECURSIVE args_from(_, _, _)
             args_from(i, acc, c) ==
                 IF i > Len(original.args) THEN [args |-> acc, counter |-> c]
                 ELSE LET r == rename_variables(original.args[i], c)
                      IN args_from(i + 1, Append(acc, r.term), r.counter)
             ra == args_from(1, <<>>, counter)
         IN [term |-> [original EXCEPT !.args = ra.args], counter |-> ra.counter]
    ELSE [term |-> original, counter |-> counter]

-----------------------------------------------------------------------------
(* substitution.c                                                          *)

create_substitution == <<>>

add_sub_pair_front(s, var_name, term) ==
    <<[var_name |-> var_name, term |-> term]>> \o s

\* append one pair (the term is deep-copied, i.e. stored by value)
add_sub_pair(s, var_name, term) ==
    Append(s, [var_name |-> var_name, term |-> term])

mark_substitution(s) == Len(s)

restore_substitution_keep(s, mark) == s

\* drop every pair at index >= mark (0-based), i.e. keep the first mark pairs
restore_substitution(s, mark) == SubSeq(s, 1, mark)

\* the scan "for (i = 0; i < sub->count; ++i) if (strcmp(...) == 0)":
\* 1-based index of the first pair for var_name, 0 when there is none
find_pair(s, var_name) ==
    LET hits == {i \in 1..Len(s) : s[i].var_name = var_name}
    IN IF hits = {} THEN 0
       ELSE CHOOSE i \in hits : \A j \in hits : i <= j

\* bound on the depth of the recursion of apply_substitution and of unify
\* (the C stack)
MaxApplyDepth == 16

apply_substitution_none(term, s) == term

RECURSIVE apply_substitution_d(_, _, _)
apply_substitution_d(term, s, depth) ==
    IF depth > MaxApplyDepth THEN StackOverflow
    ELSE IF term.type = "VARIABLE" /\ find_pair(s, term.name) # 0
    THEN apply_substitution_d(s[find_pair(s, term.name)].term, s, depth + 1)
    ELSE IF term.type = "COMPOUND"
    THEN LET RECURSIVE args_from(_, _)
             args_from(i, acc) ==
                 IF i > Len(term.args) THEN acc
                 ELSE LET a == apply_substitution_d(term.args[i], s, depth + 1)
                      IN IF a = StackOverflow THEN <<StackOverflow>>
                         ELSE args_from(i + 1, Append(acc, a))
             as == args_from(1, <<>>)
         IN IF as = <<StackOverflow>> THEN StackOverflow
            ELSE [term EXCEPT !.args = as]
    ELSE term

\* a copy of term with every bound variable replaced, recursively, by the
\* term of its first pair
apply_substitution(term, s) == apply_substitution_d(term, s, 0)

-----------------------------------------------------------------------------
(* unification.c                                                           *)

occurs_check_never(var_name, term) == FALSE

RECURSIVE occurs_check(_, _)
\* var_name occurs in term (no dereferencing through the trail)
occurs_check(var_name, term) ==
    IF term.type = "VARIABLE" THEN var_name = term.name
    ELSE IF term.type = "COMPOUND"
    THEN \E i \in 1..Len(term.args) : occurs_check(var_name, term.args[i])
    ELSE FALSE

dereference_none(term, s) == term

RECURSIVE dereference(_, _)
dereference(term, s) ==
    IF term.type # "VARIABLE" THEN term
    ELSE IF find_pair(s, term.name) # 0
    THEN dereference(s[find_pair(s, term.name)].term, s)
    ELSE term

RECURSIVE unify_d(_, _, _, _)
\* unify at recursion depth d; returns [ok, sub, overflow]: the boolean result,
\* the trail as the call leaves it, and whether the recursion ran out of stack
unify_d(t1in, t2in, s, depth) ==
    LET t1 == dereference(t1in, s)
        t2 == dereference(t2in, s)
        yes(si) == [ok |-> TRUE, sub |-> si, overflow |-> FALSE]
        no(si) == [ok |-> FALSE, sub |-> si, overflow |-> FALSE]
    IN IF depth > MaxApplyDepth
       THEN [ok |-> FALSE, sub |-> s, overflow |-> TRUE]
       ELSE IF t1.type = "VARIABLE"
       THEN IF t1.name = t2.name /\ t2.type = "VARIABLE"
            THEN yes(s)
            ELSE IF occurs_check(t1.name, t2)
            THEN no(s)
            ELSE yes(add_sub_pair(s, t1.name, t2))
       ELSE IF t2.type = "VARIABLE"
       THEN IF occurs_check(t2.name, t1)
            THEN no(s)
            ELSE yes(add_sub_pair(s, t2.name, t1))
       ELSE IF t1.type = "ATOM" /\ t2.type = "ATOM"
       THEN IF t1.name = t2.name THEN yes(s) ELSE no(s)
       ELSE IF t1.type = "COMPOUND" /\ t2.type = "COMPOUND"
       THEN IF t1.name # t2.name \/ Len(t1.args) # Len(t2.args)
            THEN no(s)
            ELSE LET RECURSIVE args_from(_, _)
                     args_from(i, si) ==
                         IF i > Len(t1.args) THEN yes(si)
                         ELSE LET r == unify_d(t1.args[i], t2.args[i], si, depth + 1)
                              IN IF ~r.ok THEN r
                                 ELSE args_from(i + 1, r.sub)
                 IN args_from(1, s)
       ELSE no(s)

unify(t1, t2, s) == unify_d(t1, t2, s, 0)

-----------------------------------------------------------------------------
(* clause.c / knowledge_base.c                                             *)

create_clause(head, body) == [head |-> head, body |-> body]

\* the knowledge bases and queries the resolve_query runs are drawn from
P2(name, s, t) == create_compound_term(name, <<s, t>>)

Family == << create_clause(P2(n_parent, Atom(n_john), Atom(n_jim)), <<>>),
             create_clause(P2(n_parent, Atom(n_john), Atom(n_jane)), <<>>),
             create_clause(P2(n_parent, Atom(n_mary), Atom(n_john)), <<>>) >>

\* grandparent(X,Y) :- parent(X,Z), parent(Z,Y).
GrandparentRule ==
    create_clause(P2(n_grandparent, Var(n_X), Var(n_Y)),
                  << P2(n_parent, Var(n_X), Var(n_Z)),
                     P2(n_parent, Var(n_Z), Var(n_Y)) >>)

\* ancestor(X,Y) :- parent(X,Y).
AncestorBase ==
    create_clause(P2(n_ancestor, Var(n_X), Var(n_Y)),
                  << P2(n_parent, Var(n_X), Var(n_Y)) >>)

\* ancestor(X,Y) :- parent(X,Z), ancestor(Z,Y).
AncestorRule ==
    create_clause(P2(n_ancestor, Var(n_X), Var(n_Y)),
                  << P2(n_parent, Var(n_X), Var(n_Z)),
                     P2(n_ancestor, Var(n_Z), Var(n_Y)) >>)

GrandKB == Family \o <<GrandparentRule>>
AncestorKB == Family \o <<AncestorBase, AncestorRule>>

\* a base holding only male(john).
MaleKB == << create_clause(create_compound_term(n_male, <<Atom(n_john)>>), <<>>) >>

\* grandparent(X,Y) :- ancestor(X,Z), parent(Z,Y).
GrandViaRule ==
    create_clause(P2(n_grandparent, Var(n_X), Var(n_Y)),
                  << P2(n_ancestor, Var(n_X), Var(n_Z)),
                     P2(n_parent, Var(n_Z), Var(n_Y)) >>)

\* a base whose rule calls, as its first body goal, a goal defined by a rule
GrandViaKB == Family \o <<AncestorBase, GrandViaRule>>

KnowledgeBases == {Family, GrandKB, AncestorKB, MaleKB, GrandViaKB}

Q_parent_john_X == P2(n_parent, Atom(n_john), Var(n_X))
Q_parent_pam_bob == P2(n_parent, Atom(n_pam), Atom(n_bob))
Q_parent_X_Y == P2(n_parent, Var(n_X), Var(n_Y))
Q_parent_X_X == P2(n_parent, Var(n_X), Var(n_X))
Q_grandparent_mary_X == P2(n_grandparent, Atom(n_mary), Var(n_X))
Q_ancestor_mary_W == P2(n_ancestor, Atom(n_mary), Var(n_W))

Q_grandparent_X_X == P2(n_grandparent, Var(n_X), Var(n_X))
Q_male_tom == create_compound_term(n_male, <<Atom(n_tom)>>)
\* a goal that is a bare variable
Q_X == Var(n_X)

Queries == {Q_parent_john_X, Q_parent_pam_bob, Q_parent_X_Y, Q_parent_X_X,
            Q_grandparent_mary_X, Q_ancestor_mary_W, Q_grandparent_X_X, Q_male_tom, Q_X}

-----------------------------------------------------------------------------
(* inference.c                                                             *)

\* bound on the depth of the recursion of resolve
MaxDepth == 7
\* bound on the number of resolve_query calls made in a row
MaxRuns == 2

NoClause == create_clause(Atom(<<>>), <<>>)
NoRestore == [set |-> FALSE, mark_sub |-> <<>>, before |-> <<>>, after |-> <<>>]
NoReturn == [set |-> FALSE, entry |-> <<>>, exit |-> <<>>]

\* a frame of resolve: its goals, the loop index i (1-based), whether it is
\* at the top of the loop or inside the recursive call, and sub_mark;
\* entry_sub and mark_sub remember the trail on entry and at the mark
Frame(goals, s) ==
    [goals |-> goals, i |-> 1, at |-> "loop", sub_mark |-> 0,
     fresh_clause |-> NoClause, entry_sub |-> s, mark_sub |-> <<>>]

Top == stack[Len(stack)]
Pop == SubSeq(stack, 1, Len(stack) - 1)
SetTop(f) == [stack EXCEPT ![Len(stack)] = f]

clause_at_reversed(base, i) == base[Len(base) + 1 - i]

\* Clause *clause = kb->clauses[i]
clause_at(base, i) == base[i]

\* the fresh copy of a clause: head first, then each body goal, one counter
fresh_copy(clause, counter) ==
    LET h == rename_variables(clause.head, counter)
        RECURSIVE body_from(_, _, _)
        body_from(j, acc, c) ==
            IF j > Len(clause.body) THEN [body |-> acc, counter |-> c]
            ELSE LET r == rename_variables(clause.body[j], c)
                 IN body_from(j + 1, Append(acc, r.term), r.counter)
        b == body_from(1, <<>>, h.counter)
    IN [clause |-> create_clause(h.term, b.body), counter |-> b.counter]

\* the filter of the solution printer: var_name[0] != '_' || var_name[1] != 'G'
is_printed(var_name) ==
    \/ Len(var_name) = 0
    \/ var_name[1] # "_"
    \/ Len(var_name) < 2
    \/ var_name[2] # "G"

\* the bindings printed for one solution, in trail order
printed_bindings(s) ==
    LET RECURSIVE from(_, _)
        from(i, acc) ==
            IF i > Len(s) THEN acc
            ELSE IF is_printed(s[i].var_name)
            THEN from(i + 1, Append(acc, [var_name |-> s[i].var_name,
                                          term |-> apply_substitution(s[i].term, s)]))
            ELSE from(i + 1, acc)
    IN from(1, <<>>)

next_goals_rest_first(fresh, goals, s) ==
    [j \in 1..(Len(fresh.body) + Len(goals) - 1) |->
        IF j <= Len(goals) - 1 THEN apply_substitution(goals[j + 1], s)
        ELSE apply_substitution(fresh.body[j - Len(goals) + 1], s)]

\* next_goals: the body of the fresh clause, then goals[1..], all with sub applied
next_goals(fresh, goals, s) ==
    [j \in 1..(Len(fresh.body) + Len(goals) - 1) |->
        IF j <= Len(fresh.body) THEN apply_substitution(fresh.body[j], s)
        ELSE apply_substitution(goals[j - Len(fresh.body) + 1], s)]

attempt_clause_stored(i) == <<"stored", i>>

\* the Clause object one attempt unifies against and frees when it is over:
\* fresh_clause, allocated by the attempt itself, never kb->clauses[i]
attempt_clause(i) == <<"fresh", i>>

\* free_term / free on the head, the body and the Clause object obj, as it
\* leaves the knowledge base: a stored clause that is freed is lost
free_attempt_clause(base, obj) ==
    IF obj[1] = "stored" THEN [base EXCEPT ![obj[2]] = NoClause] ELSE base

RECURSIVE VarOccs(_)
\* the variable names of a term, one per occurrence, left to right
VarOccs(t) ==
    IF t.type = "VARIABLE" THEN <<t.name>>
    ELSE LET RECURSIVE from(_, _)
             from(i, acc) == IF i > Len(t.args) THEN acc
                             ELSE from(i + 1, acc \o VarOccs(t.args[i]))
         IN from(1, <<>>)

ClauseVarOccs(c) ==
    LET RECURSIVE from(_, _)
        from(j, acc) == IF j > Len(c.body) THEN acc
                        ELSE from(j + 1, acc \o VarOccs(c.body[j]))
    IN from(1, VarOccs(c.head))

LogFresh(i, fresh) ==
    Append(fresh_log, [i |-> i, depth |-> Len(stack), fresh_clause |-> fresh])

InitialVarCounter_static == var_counter

\* int var_counter = 0 in resolve_query
InitialVarCounter == 0

\* resolve_query up to its call of resolve
resolve_query_begin ==
    /\ pc \in {"idle", "done"}
    /\ run < MaxRuns
    /\ run' = run + 1
    /\ prev_output' = output
    /\ prev_count' = solution_count
    /\ sub' = create_substitution
    /\ var_counter' = InitialVarCounter
    /\ solution_count' = 0
    /\ output' = <<>>
    /\ said_no' = FALSE
    /\ stack' = <<Frame(<<query_term>>, create_substitution)>>
    /\ fresh_log' = <<>>
    /\ restored' = NoRestore
    /\ returned' = NoReturn
    /\ pc' = "running"
    /\ UNCHANGED <<kb, query_term>>

\* resolve, base case: no goals left, print the solution and return
resolve_solution ==
    /\ pc = "running" /\ stack # <<>>
    /\ Top.goals = <<>>
    /\ LET b == printed_bindings(sub)
       IN IF \E k \in 1..Len(b) : b[k].term = StackOverflow
          THEN /\ pc' = "crashed"
               /\ UNCHANGED <<stack, output, solution_count, returned>>
          ELSE /\ output' = Append(output,
                     [bindings |-> b, trail |-> sub,
                      path |-> [k \in 1..(Len(stack) - 1) |-> stack[k].i]])
               /\ solution_count' = solution_count + 1
               /\ stack' = Pop
               /\ returned' = [set |-> TRUE, entry |-> Top.entry_sub, exit |-> sub]
               /\ pc' = pc
    /\ UNCHANGED <<kb, query_term, sub, var_counter, said_no, run, prev_output,
                   prev_count, fresh_log, restored>>

\* resolve, one clause attempt whose unify succeeds: rename, mark, unify,
\* build next_goals and enter the recursive call
resolve_unify_ok ==
    /\ pc = "running" /\ stack # <<>>
    /\ Top.goals # <<>> /\ Top.at = "loop" /\ Top.i <= Len(kb)
    /\ Len(stack) < MaxDepth
    /\ LET f == fresh_copy(clause_at(kb, Top.i), var_counter)
           mark == mark_substitution(sub)
           u == unify(Top.goals[1], f.clause.head, sub)
           ng == next_goals(f.clause, Top.goals, u.sub)
       IN /\ u.ok
          /\ var_counter' = f.counter
          /\ fresh_log' = LogFresh(Top.i, f.clause)
          /\ sub' = u.sub
          /\ IF \E j \in 1..Len(ng) : ng[j] = StackOverflow
             THEN pc' = "crashed" /\ stack' = stack
             ELSE /\ pc' = pc
                  /\ stack' = Append(
                        SetTop([Top EXCEPT !.at = "call", !.sub_mark = mark,
                                           !.fresh_clause = f.clause,
                                           !.mark_sub = sub]),
                        Frame(ng, u.sub))
    /\ UNCHANGED <<kb, query_term, solution_count, output, said_no, run,
                   prev_output, prev_count, restored, returned>>

\* resolve, one clause attempt whose unify fails: rename, mark, unify,
\* restore, free the fresh clause, next clause
resolve_unify_fail ==
    /\ pc = "running" /\ stack # <<>>
    /\ Top.goals # <<>> /\ Top.at = "loop" /\ Top.i <= Len(kb)
    /\ LET f == fresh_copy(clause_at(kb, Top.i), var_counter)
           mark == mark_substitution(sub)
           u == unify(Top.goals[1], f.clause.head, sub)
       IN /\ ~u.ok
          /\ var_counter' = f.counter
          /\ fresh_log' = LogFresh(Top.i, f.clause)
          /\ IF u.overflow
             THEN /\ pc' = "crashed"
                  /\ UNCHANGED <<sub, restored, stack>>
             ELSE /\ pc' = pc
                  /\ sub' = restore_substitution(u.sub, mark)
                  /\ restored' = [set |-> TRUE, mark_sub |-> sub,
                                  before |-> u.sub, after |-> sub']
                  /\ stack' = SetTop([Top EXCEPT !.i = Top.i + 1])
    /\ kb' = IF pc' = "crashed" THEN kb
             ELSE free_attempt_clause(kb, attempt_clause(Top.i))
    /\ UNCHANGED <<query_term, solution_count, output, said_no, run,
                   prev_output, prev_count, returned>>

resolve_backtrack_norestore ==
    /\ pc = "running" /\ stack # <<>>
    /\ Top.at = "call"
    /\ sub' = sub
    /\ restored' = [set |-> TRUE, mark_sub |-> Top.mark_sub, before |-> sub,
                    after |-> sub']
    /\ stack' = SetTop([Top EXCEPT !.at = "loop", !.i = Top.i + 1,
                                   !.fresh_clause = NoClause])
    /\ kb' = free_attempt_clause(kb, attempt_clause(Top.i))
    /\ UNCHANGED <<query_term, pc, var_counter, solution_count, output,
                   said_no, run, prev_output, prev_count, fresh_log, returned>>

\* resolve, after the recursive call returned: free next_goals, restore,
\* free the fresh clause, next clause
resolve_backtrack ==
    /\ pc = "running" /\ stack # <<>>
    /\ Top.at = "call"
    /\ sub' = restore_substitution(sub, Top.sub_mark)
    /\ restored' = [set |-> TRUE, mark_sub |-> Top.mark_sub, before |-> sub,
                    after |-> sub']
    /\ stack' = SetTop([Top EXCEPT !.at = "loop", !.i = Top.i + 1,
                                   !.fresh_clause = NoClause])
    /\ kb' = free_attempt_clause(kb, attempt_clause(Top.i))
    /\ UNCHANGED <<query_term, pc, var_counter, solution_count, output,
                   said_no, run, prev_output, prev_count, fresh_log, returned>>

\* resolve, every clause has been tried: return
resolve_return ==
    /\ pc = "running" /\ stack # <<>>
    /\ Top.goals # <<>> /\ Top.at = "loop" /\ Top.i > Len(kb)
    /\ stack' = Pop
    /\ returned' = [set |-> TRUE, entry |-> Top.entry_sub, exit |-> sub]
    /\ UNCHANGED <<kb, query_term, pc, sub, var_counter, solution_count, output,
                   said_no, run, prev_output, prev_count, fresh_log, restored>>

failure_indicator_never(count) == FALSE

\* if (*solution_count == 0) printf("No.\n")
failure_indicator(count) == count = 0

\* resolve_query after resolve returned: "No." when nothing was found,
\* then free_substitution
resolve_query_end ==
    /\ pc = "running" /\ stack = <<>>
    /\ said_no' = failure_indicator(solution_count)
    /\ pc' = "done"
    /\ UNCHANGED <<kb, query_term, stack, sub, var_counter, solution_count,
                   output, run, prev_output, prev_count, fresh_log, restored,
                   returned>>

InitResolve ==
    /\ kb \in KnowledgeBases
    /\ query_term \in Queries
    /\ pc = "idle" /\ stack = <<>>
    /\ sub = <<>> /\ var_counter = 0 /\ solution_count = 0 /\ output = <<>>
    /\ said_no = FALSE
    /\ run = 0 /\ prev_output = <<>> /\ prev_count = 0 /\ fresh_log = <<>>
    /\ restored = NoRestore /\ returned = NoReturn

-----------------------------------------------------------------------------
(* prolog_data.c: predicates, clauses, substitutions of the flat engine    *)
(* (terms are atoms and variables only; they reuse the records above)      *)

MAX_BINDINGS == 50

create_predicate(name, args) == [name |-> name, args |-> args]
create_fact(pred) == [type |-> "FACT", head |-> pred, body |-> <<>>]
create_rule(head, body) == [type |-> "RULE", head |-> head, body |-> body]

\* add_binding: appends unless the substitution already holds MAX_BINDINGS;
\* ref names the Term object the binding points to (it is not copied)
add_binding(s, var_name, term, ref) ==
    IF Len(s) < MAX_BINDINGS
    THEN Append(s, [variable_name |-> var_name, term |-> term, ref |-> ref])
    ELSE s

\* get_binding: 1-based index of the first binding of var_name, 0 for NULL
get_binding(s, var_name) ==
    LET hits == {i \in 1..Len(s) : s[i].variable_name = var_name}
    IN IF hits = {} THEN 0
       ELSE CHOOSE i \in hits : \A j \in hits : i <= j

\* copy_substitution: every binding re-added with a copy of its term
copy_substitution(s) ==
    LET RECURSIVE from(_, _)
        from(i, acc) ==
            IF i > Len(s) THEN acc
            ELSE from(i + 1, add_binding(acc, s[i].variable_name, s[i].term,
                                         <<"copy", Len(acc) + 1>>))
    IN from(1, <<>>)

-----------------------------------------------------------------------------
(* prolog_unify.c                                                          *)

\* unify_terms on the Term objects (t1, at r1) and (t2, at r2): variables are
\* resolved one step through get_binding; returns [ok, sub]
unify_terms(t1, r1, t2, r2, s) ==
    LET b1 == IF t1.type = "VARIABLE" THEN get_binding(s, t1.name) ELSE 0
        b2 == IF t2.type = "VARIABLE" THEN get_binding(s, t2.name) ELSE 0
        resolved_t1 == IF b1 # 0 THEN s[b1].term ELSE t1
        resolved_t2 == IF b2 # 0 THEN s[b2].term ELSE t2
        p1 == IF b1 # 0 THEN s[b1].ref ELSE r1
        p2 == IF b2 # 0 THEN s[b2].ref ELSE r2
    IN IF p1 = p2 THEN [ok |-> TRUE, sub |-> s]
       ELSE IF resolved_t1.type = "ATOM" /\ resolved_t2.type = "ATOM"
       THEN [ok |-> (resolved_t1.name = resolved_t2.name), sub |-> s]
       ELSE IF resolved_t1.type = "VARIABLE"
       THEN [ok |-> TRUE, sub |-> add_binding(s, resolved_t1.name, resolved_t2, p2)]
       ELSE IF resolved_t2.type = "VARIABLE"
       THEN [ok |-> TRUE, sub |-> add_binding(s, resolved_t2.name, resolved_t1, p1)]
       ELSE [ok |-> FALSE, sub |-> s]

unify_predicates(query, fact_head, s) ==
    IF query.name # fact_head.name THEN [ok |-> FALSE, sub |-> s]
    ELSE IF Len(query.args) # Len(fact_head.args) THEN [ok |-> FALSE, sub |-> s]
    ELSE LET RECURSIVE from(_, _)
             from(i, si) ==
                 IF i > Len(query.args) THEN [ok |-> TRUE, sub |-> si]
                 ELSE LET r == unify_terms(query.args[i], <<"goal", i>>,
                                           fact_head.args[i], <<"head", i>>, si)
                      IN IF ~r.ok THEN [ok |-> FALSE, sub |-> r.sub]
                         ELSE from(i + 1, r.sub)
         IN from(1, s)

-----------------------------------------------------------------------------
(* prolog_query.c                                                          *)

\* sprintf(new_name, "%s_%d", original_name, var_counter++)
generate_fresh_var_name(original_name, counter) ==
    original_name \o <<"_">> \o FormatInt(counter)

\* returns the renamed term, the renaming substitution and the counter
rename_variables_in_term(term, renaming_sub, counter) ==
    IF term.type = "ATOM"
    THEN [term |-> term, rs |-> renaming_sub, counter |-> counter]
    ELSE IF get_binding(renaming_sub, term.name) # 0
    THEN [term |-> renaming_sub[get_binding(renaming_sub, term.name)].term,
          rs |-> renaming_sub, counter |-> counter]
    ELSE LET new_var_term == Var(generate_fresh_var_name(term.name, counter))
         IN [term |-> new_var_term,
             rs |-> add_binding(renaming_sub, term.name, new_var_term, <<"new">>),
             counter |-> counter + 1]

rename_variables_in_predicate(pred, renaming_sub, counter) ==
    LET RECURSIVE from(_, _, _, _)
        from(i, acc, rs, c) ==
            IF i > Len(pred.args)
            THEN [pred |-> create_predicate(pred.name, acc), rs |-> rs, counter |-> c]
            ELSE LET r == rename_variables_in_term(pred.args[i], rs, c)
                 IN from(i + 1, Append(acc, r.term), r.rs, r.counter)
    IN from(1, <<>>, renaming_sub, counter)

rename_variables_in_predicatelist(list, renaming_sub, counter) ==
    LET RECURSIVE from(_, _, _, _)
        from(i, acc, rs, c) ==
            IF i > Len(list) THEN [list |-> acc, rs |-> rs, counter |-> c]
            ELSE LET r == rename_variables_in_predicate(list[i], rs, c)
                 IN from(i + 1, Append(acc, r.pred), r.rs, r.counter)
    IN from(1, <<>>, renaming_sub, counter)

\* one renaming substitution per clause: head first, then the body
rename_variables_in_clause(clause, counter) ==
    LET h == rename_variables_in_predicate(clause.head, <<>>, counter)
        b == rename_variables_in_predicatelist(clause.body, h.rs, h.counter)
    IN [clause |-> [clause EXCEPT !.head = h.pred, !.body = b.list],
        counter |-> b.counter]

\* bound on the depth of the recursion of prove
MaxProveDepth == 5
\* bound on the number of queries typed at the prompt
MaxQueries == 2

fl_p(name, t) == create_predicate(name, <<t>>)
fl_p2(name, s, t) == create_predicate(name, <<s, t>>)
n_female == <<"f","e","m","a","l","e">>
n_p == <<"p">>
n_t == <<"t">>
n_u == <<"u">>

\* add_default_facts of main.c
DefaultFacts ==
    << create_fact(fl_p2(n_parent, Atom(n_john), Atom(n_jim))),
       create_fact(fl_p2(n_parent, Atom(n_john), Atom(n_jane))),
       create_fact(fl_p2(n_parent, Atom(n_mary), Atom(n_john))),
       create_fact(fl_p(n_male, Atom(n_john))),
       create_fact(fl_p(n_female, Atom(n_mary))) >>

\* a file with  p(a).  u(b).  t(X) :- p(X).
LoadedPUT ==
    << create_fact(fl_p(n_p, Atom(n_a))),
       create_fact(fl_p(n_u, Atom(n_b))),
       create_rule(fl_p(n_t, Var(n_X)), << fl_p(n_p, Var(n_X)) >>) >>

Databases == {DefaultFacts, LoadedPUT}

GoalLists == { << fl_p2(n_parent, Atom(n_john), Var(n_X)) >>,
               << fl_p2(n_parent, Atom(n_pam), Atom(n_bob)) >>,
               << fl_p(n_male, Atom(n_john)) >>,
               << fl_p(n_t, Atom(n_b)) >>,
               << fl_p(n_t, Var(n_W)) >>,
               << fl_p(n_t, Var(n_W)), fl_p(n_u, Var(n_W)) >> }

NotStarted == [set |-> FALSE, sub_size |-> 0, counter |-> 0]
NoPred == create_predicate(<<>>, <<>>)
NoFlatClause == create_fact(NoPred)

\* a Substitution object on the heap; bindings are stored without ref
q_object(bindings) ==
    [bindings |-> [k \in 1..Len(bindings) |->
                     [variable_name |-> bindings[k].variable_name,
                      term |-> bindings[k].term]],
     live |-> TRUE, frees |-> 0]

\* free_substitution of prolog_data.c on heap object id
q_free(heap, id) == [heap EXCEPT ![id].live = FALSE, ![id].frees = @ + 1]

\* the bindings of heap object id as copy_substitution reads them
q_bindings(heap, id) ==
    [k \in 1..Len(heap[id].bindings) |->
        [variable_name |-> heap[id].bindings[k].variable_name,
         term |-> heap[id].bindings[k].term, ref |-> <<"stored", k>>]]

QFrame(goals, sub_id) ==
    [goals |-> goals, sub |-> sub_id, i |-> 1, at |-> "loop", new_sub |-> 0,
     fresh_clause |-> NoFlatClause]

QTop == q_stack[Len(q_stack)]
QPop == SubSeq(q_stack, 1, Len(q_stack) - 1)
QSetTop(f) == [q_stack EXCEPT ![Len(q_stack)] = f]

\* query up to its call of prove: initial_sub = create_substitution()
query_begin ==
    /\ qpc = "idle"
    /\ q_count < MaxQueries
    /\ \E g \in GoalLists :
          /\ q_goals' = g
          /\ q_heap' = <<q_object(<<>>)>>
          /\ q_stack' = <<QFrame(g, 1)>>
    /\ q_started' = [set |-> TRUE, sub_size |-> Len(q_heap'[1].bindings),
                     counter |-> q_var_counter]
    /\ q_count' = q_count + 1
    /\ q_ret' = "none"
    /\ q_result' = "none"
    /\ qpc' = "proving"
    /\ UNCHANGED <<database, q_var_counter, q_uaf>>

\* prove, base case: no goals, return true
prove_base ==
    /\ qpc = "proving" /\ q_stack # <<>>
    /\ QTop.goals = <<>>
    /\ q_stack' = QPop
    /\ q_ret' = "true"
    /\ UNCHANGED <<database, qpc, q_goals, q_var_counter, q_heap, q_result,
                   q_started, q_count, q_uaf>>

\* prove, one clause whose head unifies: rename, copy sub, unify, build
\* remaining_goals (body of the fresh clause, then goals[1..]) and recurse
prove_unify_ok ==
    /\ qpc = "proving" /\ q_stack # <<>>
    /\ QTop.goals # <<>> /\ QTop.at = "loop" /\ QTop.i <= Len(database)
    /\ Len(q_stack) < MaxProveDepth
    /\ LET f == rename_variables_in_clause(database[QTop.i], q_var_counter)
           ns == copy_substitution(q_bindings(q_heap, QTop.sub))
           u == unify_predicates(QTop.goals[1], f.clause.head, ns)
           new_id == Len(q_heap) + 1
           remaining_goals ==
               (IF f.clause.type = "RULE" THEN f.clause.body ELSE <<>>)
                   \o SubSeq(QTop.goals, 2, Len(QTop.goals))
       IN /\ u.ok
          /\ q_var_counter' = f.counter
          /\ q_heap' = Append(q_heap, q_object(u.sub))
          /\ q_stack' = Append(
                QSetTop([QTop EXCEPT !.at = "call", !.new_sub = new_id,
                                     !.fresh_clause = f.clause]),
                QFrame(remaining_goals, new_id))
    /\ q_ret' = "none"
    /\ UNCHANGED <<database, qpc, q_goals, q_result, q_started, q_count, q_uaf>>

\* prove, one clause whose head does not unify: rename, copy sub, unify,
\* free the fresh clause and new_sub, next clause
prove_unify_fail ==
    /\ qpc = "proving" /\ q_stack # <<>>
    /\ QTop.goals # <<>> /\ QTop.at = "loop" /\ QTop.i <= Len(database)
    /\ LET f == rename_variables_in_clause(database[QTop.i], q_var_counter)
           ns == copy_substitution(q_bindings(q_heap, QTop.sub))
           u == unify_predicates(QTop.goals[1], f.clause.head, ns)
       IN /\ ~u.ok
          /\ q_var_counter' = f.counter
    /\ q_stack' = QSetTop([QTop EXCEPT !.i = QTop.i + 1])
    /\ UNCHANGED <<database, qpc, q_goals, q_ret, q_heap, q_result, q_started,
                   q_count, q_uaf>>

\* prove, the recursive call returned false: free remaining_goals, the fresh
\* clause and new_sub, next clause
prove_call_failed ==
    /\ qpc = "proving" /\ q_stack # <<>>
    /\ QTop.at = "call" /\ q_ret = "false"
    /\ q_heap' = q_free(q_heap, QTop.new_sub)
    /\ q_stack' = QSetTop([QTop EXCEPT !.at = "loop", !.i = QTop.i + 1,
                                       !.new_sub = 0,
                                       !.fresh_clause = NoFlatClause])
    /\ q_ret' = "none"
    /\ UNCHANGED <<database, qpc, q_goals, q_var_counter, q_result, q_started,
                   q_count, q_uaf>>

prove_call_succeeded_exhaustive ==
    /\ qpc = "proving" /\ q_stack # <<>>
    /\ QTop.at = "call" /\ q_ret = "true"
    /\ q_heap' = q_free(q_heap, QTop.new_sub)
    /\ q_stack' = QSetTop([QTop EXCEPT !.at = "loop", !.i = QTop.i + 1,
                                       !.new_sub = 0,
                                       !.fresh_clause = NoFlatClause])
    /\ q_ret' = "none"
    /\ UNCHANGED <<database, qpc, q_goals, q_var_counter, q_result, q_started,
                   q_count, q_uaf>>

\* prove, the recursive call returned true: free_substitution(sub), then
\* write new_sub's bindings into the freed sub, free new_sub, return true.
\* Writing into freed memory is undefined: the process either goes on with
\* the memory as written, or is killed.
prove_call_succeeded ==
    /\ qpc = "proving" /\ q_stack # <<>>
    /\ QTop.at = "call" /\ q_ret = "true"
    /\ q_uaf' = TRUE
    /\ \/ /\ q_heap' = q_free(
                 [q_free(q_heap, QTop.sub) EXCEPT ![QTop.sub].bindings =
                     q_heap[QTop.new_sub].bindings],
                 QTop.new_sub)
          /\ q_stack' = QPop
          /\ q_ret' = "true"
          /\ qpc' = qpc
       \/ /\ qpc' = "crashed"
          /\ UNCHANGED <<q_heap, q_stack, q_ret>>
    /\ UNCHANGED <<database, q_goals, q_var_counter, q_result, q_started, q_count>>

\* prove, every clause has been tried: return false
prove_exhausted ==
    /\ qpc = "proving" /\ q_stack # <<>>
    /\ QTop.goals # <<>> /\ QTop.at = "loop" /\ QTop.i > Len(database)
    /\ q_stack' = QPop
    /\ q_ret' = "false"
    /\ UNCHANGED <<database, qpc, q_goals, q_var_counter, q_heap, q_result,
                   q_started, q_count, q_uaf>>

\* query after prove returned false: print "No.", free initial_sub
query_end_no ==
    /\ qpc = "proving" /\ q_stack = <<>> /\ q_ret = "false"
    /\ q_result' = "no"
    /\ q_heap' = q_free(q_heap, 1)
    /\ qpc' = "idle"
    /\ UNCHANGED <<database, q_goals, q_var_counter, q_stack, q_ret, q_started,
                   q_count, q_uaf>>

\* query after prove returned true: print_substitution(initial_sub) and
\* free_substitution(initial_sub); initial_sub was already freed by prove
\* unless the query had no goals
query_end_yes ==
    /\ qpc = "proving" /\ q_stack = <<>> /\ q_ret = "true"
    /\ IF q_heap[1].live
       THEN /\ q_result' = "yes" /\ qpc' = "idle" /\ q_heap' = q_free(q_heap, 1)
            /\ q_uaf' = q_uaf
       ELSE /\ q_uaf' = TRUE
            /\ \/ q_result' = "yes" /\ qpc' = "idle" /\ q_heap' = q_free(q_heap, 1)
               \/ q_result' = q_result /\ qpc' = "crashed" /\ q_heap' = q_heap
    /\ UNCHANGED <<database, q_goals, q_var_counter, q_stack, q_ret, q_started,
                   q_count>>

InitQuery ==
    /\ database \in Databases
    /\ qpc = "idle" /\ q_goals = <<>> /\ q_var_counter = 0
    /\ q_stack = <<>> /\ q_ret = "none" /\ q_heap = <<>> /\ q_result = "none"
    /\ q_started = NotStarted /\ q_count = 0 /\ q_uaf = FALSE

-----------------------------------------------------------------------------
(* parser.c: a text is a sequence of characters; positions are 1-based and *)
(* the position Len(text) + 1 holds the terminating NUL                    *)

Lower == {"a","b","c","d","e","f","g","h","i","j","k","l","m",
          "n","o","p","q","r","s","t","u","v","w","x","y","z"}
Upper == {"A","B","C","D","E","F","G","H","I","J","K","L","M",
          "N","O","P","Q","R","S","T","U","V","W","X","Y","Z"}
Digits == {"0","1","2","3","4","5","6","7","8","9"}
NUL == "NUL"

\* **input
CharAt(text, pos) == IF pos >= 1 /\ pos <= Len(text) THEN text[pos] ELSE NUL

isalpha(c) == c \in Lower \cup Upper
isalnum(c) == c \in Lower \cup Upper \cup Digits

is_uppercase(c) == c \in Upper

RECURSIVE skip_whitespace(_, _)
skip_whitespace(text, pos) ==
    IF CharAt(text, pos) \in {" ", "\t", "\n", "\r"}
    THEN skip_whitespace(text, pos + 1)
    ELSE pos

\* parse_name: [ok, name, pos]; ok is FALSE for the NULL return (len == 0)
parse_name(text, start) ==
    LET RECURSIVE scan(_)
        scan(q) ==
            IF /\ CharAt(text, q) # NUL
               /\ \/ (q = start /\ isalpha(CharAt(text, q)))
                  \/ isalnum(CharAt(text, q))
                  \/ CharAt(text, q) = "_"
            THEN scan(q + 1)
            ELSE q
        end == scan(start)
    IN IF end = start
       THEN [ok |-> FALSE, name |-> <<>>, pos |-> start]
       ELSE [ok |-> TRUE, name |-> SubSeq(text, start, end - 1), pos |-> end]

NoTerm == create_term("ATOM", <<>>)

RECURSIVE parse_term(_, _)
\* parse_term(&input): [ok, term, pos]; ok is FALSE for the NULL return and
\* pos is where *input is left
parse_term(text, pos0) ==
    LET p1 == skip_whitespace(text, pos0)
        nm == parse_name(text, p1)
        p2 == skip_whitespace(text, nm.pos)
        null(q) == [ok |-> FALSE, term |-> NoTerm, pos |-> q]
    IN IF CharAt(text, p1) = NUL THEN null(p1)
       ELSE IF ~nm.ok THEN null(p1)
       ELSE IF CharAt(text, p2) = "("
       THEN LET p3 == skip_whitespace(text, p2 + 1)
                RECURSIVE args_from(_, _)
                \* the while (true) loop; on success pos is at the ')'
                args_from(acc, q) ==
                    LET a == parse_term(text, q)
                        q2 == skip_whitespace(text, a.pos)
                    IN IF ~a.ok THEN [ok |-> FALSE, args |-> acc, pos |-> a.pos]
                       ELSE IF CharAt(text, q2) = ")"
                       THEN [ok |-> TRUE, args |-> Append(acc, a.term), pos |-> q2]
                       ELSE IF CharAt(text, q2) = ","
                       THEN args_from(Append(acc, a.term),
                                      skip_whitespace(text, q2 + 1))
                       ELSE [ok |-> FALSE, args |-> acc, pos |-> q2]
                as == IF CharAt(text, p3) # ")" THEN args_from(<<>>, p3)
                      ELSE [ok |-> TRUE, args |-> <<>>, pos |-> p3]
            IN IF ~as.ok THEN null(as.pos)
               ELSE [ok |-> TRUE,
                     term |-> create_compound_term(nm.name, as.args),
                     pos |-> as.pos + 1]
       ELSE [ok |-> TRUE,
             term |-> IF is_uppercase(nm.name[1])
                      THEN create_term("VARIABLE", nm.name)
                      ELSE create_term("ATOM", nm.name),
             pos |-> p2]

NoParsedClause == [ok |-> FALSE, clause |-> NoClause, pos |-> 0]

parse_clause_nodot(text, pos0) ==
    LET h == parse_term(text, skip_whitespace(text, pos0))
    IN IF h.ok THEN [ok |-> TRUE, clause |-> create_clause(h.term, <<>>),
                     pos |-> h.pos]
       ELSE NoParsedClause

\* parse_clause(&input): [ok, clause, pos]; ok is FALSE for the NULL return
parse_clause(text, pos0) ==
    LET p1 == skip_whitespace(text, pos0)
        h == parse_term(text, p1)
        p2 == skip_whitespace(text, h.pos)
        RECURSIVE body_from(_, _)
        \* the while (true) loop; on success pos is at the '.'
        body_from(acc, q) ==
            LET g == parse_term(text, skip_whitespace(text, q))
                q2 == skip_whitespace(text, g.pos)
            IN IF ~g.ok THEN [ok |-> FALSE, body |-> acc, pos |-> g.pos]
               ELSE IF CharAt(text, q2) = "."
               THEN [ok |-> TRUE, body |-> Append(acc, g.term), pos |-> q2]
               ELSE IF CharAt(text, q2) = ","
               THEN body_from(Append(acc, g.term), q2 + 1)
               ELSE [ok |-> FALSE, body |-> acc, pos |-> q2]
    IN IF CharAt(text, p1) = NUL THEN NoParsedClause
       ELSE IF ~h.ok THEN NoParsedClause
       ELSE IF CharAt(text, p2) = ":" /\ CharAt(text, p2 + 1) = "-"
       THEN LET b == body_from(<<>>, p2 + 2)
            IN IF ~b.ok THEN NoParsedClause
               ELSE [ok |-> TRUE, clause |-> create_clause(h.term, b.body),
                     pos |-> b.pos + 1]
       ELSE IF CharAt(text, p2) # "." THEN NoParsedClause
       ELSE [ok |-> TRUE, clause |-> create_clause(h.term, <<>>), pos |-> p2 + 1]

-----------------------------------------------------------------------------
(* knowledge_base.c                                                        *)

\* create_knowledge_base: count = 0, capacity = 10
InitialCapacity == 10

\* add_clause(kb, clause): doubles the capacity when the array is full, then
\* stores the clause at index count and increments count
add_clause(base, capacity, clause) ==
    [clauses |-> Append(base, clause),
     capacity |-> IF Len(base) = capacity THEN capacity * 2 ELSE capacity]

-----------------------------------------------------------------------------
(* demo/prolog/main.c: lexer and parser                                    *)

Token(type, lexeme) == [type |-> type, lexeme |-> lexeme]

\* read_next_token_from_input at current_char_index = pos: the token and the
\* index after it
read_next_token_from_input(text, pos0) ==
    LET q == skip_whitespace(text, pos0)
        c == CharAt(text, q)
        one(type) == [token |-> Token(type, <<c>>), pos |-> q + 1]
        RECURSIVE scan(_, _)
        scan(r, chars) == IF CharAt(text, r) \in chars THEN scan(r + 1, chars) ELSE r
        word_end == scan(q + 1, Lower \cup Upper \cup Digits \cup {"_"})
        number_end == scan(q + 1, Digits)
    IN IF c = NUL THEN [token |-> Token("TOKEN_EOF", <<>>), pos |-> q]
       ELSE IF c = "(" THEN one("TOKEN_LPAREN")
       ELSE IF c = ")" THEN one("TOKEN_RPAREN")
       ELSE IF c = "," THEN one("TOKEN_COMMA")
       ELSE IF c = "." THEN one("TOKEN_DOT")
       ELSE IF c = ":"
       THEN IF CharAt(text, q + 1) = "-"
            THEN [token |-> Token("TOKEN_COLON_DASH", <<":", "-">>), pos |-> q + 2]
            ELSE one("TOKEN_UNKNOWN")
       ELSE IF c \in Lower \cup Upper \cup {"_"}
       THEN [token |-> Token(IF c \in Upper THEN "TOKEN_VARIABLE" ELSE "TOKEN_ATOM",
                             SubSeq(text, q, word_end - 1)),
             pos |-> word_end]
       ELSE IF c \in Digits
       THEN [token |-> Token("TOKEN_NUMBER", SubSeq(text, q, number_end - 1)),
             pos |-> number_end]
       ELSE one("TOKEN_UNKNOWN")

RECURSIVE TokensFrom(_, _)
\* the tokens get_next_token delivers from position pos on, up to TOKEN_EOF
TokensFrom(text, pos) ==
    LET r == read_next_token_from_input(text, pos)
    IN IF r.token.type = "TOKEN_EOF" THEN <<r.token>>
       ELSE <<r.token>> \o TokensFrom(text, r.pos)

\* current_token when k - 1 tokens have been consumed; peek_token is k + 1
TokenAt(toks, k) == IF k <= Len(toks) THEN toks[k] ELSE Token("TOKEN_EOF", <<>>)

\* atoi of a digit string
atoi(lexeme) ==
    LET RECURSIVE from(_, _)
        from(i, acc) ==
            IF i > Len(lexeme) THEN acc
            ELSE from(i + 1, acc * 10 +
                     (CHOOSE d \in 0..9 : Digit(d) = lexeme[i]))
    IN from(1, 0)

PrologTerm(type, name, args, number_value) ==
    [type |-> type, name |-> name, args |-> args, number_value |-> number_value]

NoPrologTerm == PrologTerm("TERM_ATOM", <<>>, <<>>, 0)

\* parser_error: prints the message and calls exit(1)
parser_error(k) == [status |-> "exit", term |-> NoPrologTerm, k |-> k]

parsed(term, k) == [status |-> "ok", term |-> term, k |-> k]

RECURSIVE prolog_parse_term(_, _)
\* parse_term and, inlined, parse_atom / parse_variable / parse_number /
\* parse_structure, with current_token = TokenAt(toks, k)
prolog_parse_term(toks, k) ==
    LET cur == TokenAt(toks, k)
        RECURSIVE args_from(_, _)
        \* the do ... while of parse_structure; k is left after the last argument
        args_from(acc, j) ==
            LET a == prolog_parse_term(toks, j)
            IN IF a.status = "exit" THEN [status |-> "exit", args |-> acc, k |-> a.k]
               ELSE IF TokenAt(toks, a.k).type = "TOKEN_COMMA"
               THEN args_from(Append(acc, a.term), a.k + 1)
               ELSE [status |-> "ok", args |-> Append(acc, a.term), k |-> a.k]
    IN IF cur.type = "TOKEN_ATOM"
       THEN IF TokenAt(toks, k + 1).type = "TOKEN_LPAREN"
            THEN LET as == args_from(<<>>, k + 2)
                 IN IF as.status = "exit" THEN parser_error(as.k)
                    ELSE IF TokenAt(toks, as.k).type # "TOKEN_RPAREN"
                    THEN parser_error(as.k)
                    ELSE parsed(PrologTerm("TERM_STRUCTURE", cur.lexeme, as.args, 0),
                                as.k + 1)
            ELSE parsed(PrologTerm("TERM_ATOM", cur.lexeme, <<>>, 0), k + 1)
       ELSE IF cur.type = "TOKEN_VARIABLE"
       THEN parsed(PrologTerm("TERM_VARIABLE", cur.lexeme, <<>>, 0), k + 1)
       ELSE IF cur.type = "TOKEN_NUMBER"
       THEN parsed(PrologTerm("TERM_NUMBER", <<>>, <<>>, atoi(cur.lexeme)), k + 1)
       ELSE parser_error(k)

\* main, lines 800-806: one term, which must be a structure, then a dot
prolog_parse_goal(toks, k) ==
    LET t == prolog_parse_term(toks, k)
    IN IF t.status = "exit" THEN t
       ELSE IF t.term.type # "TERM_STRUCTURE" THEN parser_error(t.k)
       ELSE IF TokenAt(toks, t.k).type # "TOKEN_DOT" THEN parser_error(t.k)
       ELSE parsed(t.term, t.k + 1)

\* main, lines 772-790: facts are parsed and added until TOKEN_EOF; returns
\* the database and whether the process is still running
prolog_load_facts(db, text) ==
    LET toks == TokensFrom(text, 1)
        RECURSIVE from(_, _)
        from(acc, k) ==
            IF TokenAt(toks, k).type = "TOKEN_EOF"
            THEN [status |-> "ok", clauses |-> acc]
            ELSE LET f == prolog_parse_goal(toks, k)
                 IN IF f.status = "exit" THEN [status |-> "exit", clauses |-> acc]
                    ELSE from(Append(acc, [head |-> f.term, body |-> <<>>]), f.k)
    IN from(db, 1)

-----------------------------------------------------------------------------
(* prolog_db.c                                                             *)

MAX_CLAUSES == 100

\* add_clause(clause): stored at database[db_size++] while db_size is below
\* MAX_CLAUSES; otherwise "Database full!" and the clause is freed
db_add_clause(db, clause) ==
    IF Len(db) < MAX_CLAUSES THEN Append(db, clause) ELSE db

-----------------------------------------------------------------------------
(* prolog_parser.c (buffers of 256 and 512 bytes hold every text used here) *)

isspace(c) == c \in {" ", "\t", "\n", "\r", "\f"}

\* trim_whitespace: leading and trailing white space removed
trim_whitespace(str) ==
    LET RECURSIVE lead(_)
        lead(i) == IF i <= Len(str) /\ isspace(str[i]) THEN lead(i + 1) ELSE i
        RECURSIVE trail(_, _)
        trail(start, end) ==
            IF end > start /\ isspace(str[end]) THEN trail(start, end - 1) ELSE end
        first == lead(1)
    IN IF first > Len(str) THEN <<>>
       ELSE SubSeq(str, first, trail(first, Len(str)))

\* strchr(str + from - 1, c): index of the first c at or after from, 0 for NULL
strchr(str, c, from) ==
    LET hits == {i \in from..Len(str) : str[i] = c}
    IN IF hits = {} THEN 0 ELSE CHOOSE i \in hits : \A j \in hits : i <= j

\* strstr(str, ":-"): index of the first ":-", 0 for NULL
strstr_neck(str) ==
    LET hits == {i \in 1..(Len(str) - 1) : str[i] = ":" /\ str[i + 1] = "-"}
    IN IF hits = {} THEN 0 ELSE CHOOSE i \in hits : \A j \in hits : i <= j

\* the tokens successive strtok(.., ",") calls deliver: the non-empty runs of
\* characters other than ','
strtok_tokens(str) ==
    LET RECURSIVE from(_, _, _)
        from(i, cur, acc) ==
            IF i > Len(str) THEN (IF cur = <<>> THEN acc ELSE Append(acc, cur))
            ELSE IF str[i] = ","
            THEN from(i + 1, <<>>, IF cur = <<>> THEN acc ELSE Append(acc, cur))
            ELSE from(i + 1, Append(cur, str[i]), acc)
    IN from(1, <<>>, <<>>)

NoParsedPred == [ok |-> FALSE, pred |-> NoPred, strtok_used |-> FALSE]

\* parse_predicate_string: [ok, pred, strtok_used]; ok is FALSE for NULL;
\* strtok_used tells that the call ran its own strtok loop to the end
parse_predicate_string(pred_string) ==
    LET open_paren == strchr(pred_string, "(", 1)
        pred_name == trim_whitespace(SubSeq(pred_string, 1, open_paren - 1))
        close_paren == strchr(pred_string, ")", open_paren + 1)
        args_str == trim_whitespace(SubSeq(pred_string, open_paren + 1,
                                           close_paren - 1))
        tokens == strtok_tokens(args_str)
        arg(token) ==
            LET trimmed_token == trim_whitespace(token)
            IN create_term(IF trimmed_token # <<>> /\ trimmed_token[1] \in Upper
                           THEN "VARIABLE" ELSE "ATOM", trimmed_token)
    IN IF open_paren = 0 THEN NoParsedPred
       ELSE IF pred_name = <<>> THEN NoParsedPred
       ELSE IF close_paren = 0 THEN NoParsedPred
       ELSE [ok |-> TRUE,
             pred |-> create_predicate(pred_name,
                         [i \in 1..Len(tokens) |-> arg(tokens[i])]),
             strtok_used |-> Len(args_str) > 0]

\* the pieces of a rule body: split at each ',' met at paren_depth 0
body_pieces(body_str) ==
    LET RECURSIVE from(_, _, _, _)
        from(i, depth, cur, acc) ==
            IF i > Len(body_str) THEN (IF cur = <<>> THEN acc ELSE Append(acc, cur))
            ELSE IF cur = <<>> /\ isspace(body_str[i])
            THEN from(i + 1, depth, cur, acc)
            ELSE IF body_str[i] = "(" THEN from(i + 1, depth + 1, Append(cur, "("), acc)
            ELSE IF body_str[i] = ")" THEN from(i + 1, depth - 1, Append(cur, ")"), acc)
            ELSE IF body_str[i] = "," /\ depth = 0
            THEN from(i + 1, depth, <<>>, Append(acc, cur))
            ELSE from(i + 1, depth, Append(cur, body_str[i]), acc)
    IN from(1, 0, <<>>, <<>>)

NoParsedFlatClause == [ok |-> FALSE, clause |-> NoFlatClause]

\* parse_clause_string: [ok, clause]; ok is FALSE for NULL
parse_clause_string(clause_string) ==
    LET len == Len(clause_string)
        buffer == SubSeq(clause_string, 1, len - 1)
        rule_separator == strstr_neck(buffer)
        head == parse_predicate_string(
                    trim_whitespace(SubSeq(buffer, 1, rule_separator - 1)))
        pieces == body_pieces(trim_whitespace(
                                 SubSeq(buffer, rule_separator + 2, Len(buffer))))
        body == [i \in 1..Len(pieces) |->
                    parse_predicate_string(trim_whitespace(pieces[i]))]
        fact_pred == parse_predicate_string(buffer)
    IN IF len = 0 \/ clause_string[len] # "." THEN NoParsedFlatClause
       ELSE IF rule_separator # 0
       THEN IF ~head.ok THEN NoParsedFlatClause
            ELSE IF \E i \in 1..Len(body) : ~body[i].ok THEN NoParsedFlatClause
            ELSE [ok |-> TRUE,
                  clause |-> create_rule(head.pred,
                                 [i \in 1..Len(body) |-> body[i].pred])]
       ELSE IF ~fact_pred.ok THEN NoParsedFlatClause
       ELSE [ok |-> TRUE, clause |-> create_fact(fact_pred.pred)]

\* one round of the fgets loop of load_clauses_from_file on a line read:
\* [step, clause]; step is "skip" for an empty or a comment line, "add" for a
\* clause to hand to add_clause, "error" for a line that ends the load
load_line(line) ==
    LET trimmed_line == trim_whitespace(line)
        c == parse_clause_string(trimmed_line)
    IN IF trimmed_line = <<>> \/ trimmed_line[1] = "%"
       THEN [step |-> "skip", clause |-> NoFlatClause]
       ELSE IF c.ok THEN [step |-> "add", clause |-> c.clause]
       ELSE [step |-> "error", clause |-> NoFlatClause]

\* what strtok(NULL, ",") yields once its saved position points into the dead
\* buffer of a returned parse_predicate_string call
DanglingOutcomes == {"end", "junk"}

\* parse_query_string: [ok, goals, dangling]; ok is FALSE for NULL; ub is the
\* outcome of a read through the dangling strtok position, when one happens
parse_query_string(query_string, ub) ==
    LET q1 == IF Len(query_string) >= 2 /\ query_string[1] = "?"
                 /\ query_string[2] = "-"
              THEN LET RECURSIVE lead(_)
                       lead(i) == IF i <= Len(query_string) /\ isspace(query_string[i])
                                  THEN lead(i + 1) ELSE i
                   IN SubSeq(query_string, lead(3), Len(query_string))
              ELSE query_string
        q2 == IF Len(q1) > 0 /\ q1[Len(q1)] = "." THEN SubSeq(q1, 1, Len(q1) - 1)
              ELSE q1
        tokens == strtok_tokens(trim_whitespace(q2))
        RECURSIVE from(_, _)
        from(n, acc) ==
            IF n > Len(tokens) THEN [ok |-> TRUE, goals |-> acc, dangling |-> FALSE]
            ELSE LET pr == parse_predicate_string(trim_whitespace(tokens[n]))
                 IN IF ~pr.ok THEN [ok |-> FALSE, goals |-> <<>>, dangling |-> FALSE]
                    ELSE IF pr.strtok_used
                    THEN IF ub = "end"
                         THEN [ok |-> TRUE, goals |-> Append(acc, pr.pred),
                               dangling |-> TRUE]
                         ELSE [ok |-> FALSE, goals |-> <<>>, dangling |-> TRUE]
                    ELSE from(n + 1, Append(acc, pr.pred))
    IN from(1, <<>>)

-----------------------------------------------------------------------------
(* Texts handed to the parsers                                             *)

LP == <<"(">>
RP == <<")">>
DOT == <<".">>
COMMA_SP == <<",", " ">>
NECK == <<" ", ":", "-", " ">>
n_foo == <<"f","o","o">>

\* parent(john, jim).   male(john).   t(X) :- p(X).   t(X) :- p(X), u(X).
T_parent_john_jim == n_parent \o LP \o n_john \o COMMA_SP \o n_jim \o RP \o DOT
T_male_john == n_male \o LP \o n_john \o RP \o DOT
T_rule_t == n_t \o LP \o n_X \o RP \o NECK \o n_p \o LP \o n_X \o RP \o DOT
T_rule_tpu == n_t \o LP \o n_X \o RP \o NECK \o n_p \o LP \o n_X \o RP
                  \o COMMA_SP \o n_u \o LP \o n_X \o RP \o DOT
\* parent(john, jim     parent(john, jim)     parent(john jim).
T_no_close == n_parent \o LP \o n_john \o COMMA_SP \o n_jim
T_no_dot == n_parent \o LP \o n_john \o COMMA_SP \o n_jim \o RP
T_no_comma == n_parent \o LP \o n_john \o <<" ">> \o n_jim \o RP \o DOT
\* parent(, jim).     t(X) :- .     (a).     t(X) :- p(X) u(X).
T_empty_arg == n_parent \o LP \o COMMA_SP \o n_jim \o RP \o DOT
T_empty_body == n_t \o LP \o n_X \o RP \o NECK \o DOT
T_no_functor == LP \o n_a \o RP \o DOT
T_two_goals_no_comma == n_t \o LP \o n_X \o RP \o NECK \o n_p \o LP \o n_X \o RP
                            \o <<" ">> \o n_u \o LP \o n_X \o RP \o DOT
\* X.     X :- p(a).
T_var_head == n_X \o DOT
T_var_head_rule == n_X \o NECK \o n_p \o LP \o n_a \o RP \o DOT

GoodClauseTexts == {T_parent_john_jim, T_male_john, T_rule_t, T_rule_tpu}
BadClauseTexts == {T_no_close, T_no_dot, T_no_comma, T_empty_arg, T_empty_body,
                   T_no_functor, T_two_goals_no_comma}
VarHeadTexts == {T_var_head, T_var_head_rule}
ClauseTexts == GoodClauseTexts \cup BadClauseTexts \cup VarHeadTexts

\* X   _x   foo   Foo(a)   foo(a)   _f(a)   foo(X, _y)
T_X == n_X
T_underscore == <<"_", "x">>
T_foo == n_foo
T_Foo_a == <<"F","o","o">> \o LP \o n_a \o RP
T_foo_a == n_foo \o LP \o n_a \o RP
T_underscore_f_a == <<"_", "f">> \o LP \o n_a \o RP
T_foo_X_y == n_foo \o LP \o n_X \o COMMA_SP \o <<"_", "y">> \o RP

GoodTermTexts == {T_X, T_underscore, T_foo, T_Foo_a, T_foo_a, T_underscore_f_a,
                  T_foo_X_y}
BadTermTexts == {T_no_close, T_empty_arg, T_no_functor, <<>>}
TermTexts == GoodTermTexts \cup BadTermTexts

-----------------------------------------------------------------------------
(* parser.c and knowledge_base.c at work: texts are parsed, parsed clauses *)
(* are added to a KnowledgeBase                                            *)

\* bound on the number of texts handed to the parsers of parser.c
MaxParses == 3

TenClauses == [i \in 1..InitialCapacity |-> Family[((i - 1) % 3) + 1]]

NoParsedTerm == [ok |-> FALSE, term |-> NoTerm, pos |-> 0]

parse_term_call ==
    /\ p_n < MaxParses
    /\ \E text \in TermTexts :
          /\ p_text' = text
          /\ p_term' = parse_term(text, 1)
    /\ p_which' = "parse_term"
    /\ p_n' = p_n + 1
    /\ UNCHANGED <<p_clause, p_kb, p_capacity, p_rejected>>

parse_clause_call ==
    /\ p_n < MaxParses
    /\ \E text \in ClauseTexts :
          /\ p_text' = text
          /\ p_clause' = parse_clause(text, 1)
    /\ p_which' = "parse_clause"
    /\ p_n' = p_n + 1
    /\ p_rejected' = IF p_clause'.ok THEN p_rejected ELSE p_text'
    /\ UNCHANGED <<p_term, p_kb, p_capacity>>

\* add_clause(kb, clause) with the clause parse_clause returned
kb_add_clause ==
    /\ p_clause.ok
    /\ LET r == add_clause(p_kb, p_capacity, p_clause.clause)
       IN p_kb' = r.clauses /\ p_capacity' = r.capacity
    /\ p_clause' = NoParsedClause
    /\ p_which' = "add_clause"
    /\ UNCHANGED <<p_text, p_term, p_n, p_rejected>>

InitParse ==
    /\ p_text = <<>> /\ p_which = "none"
    /\ p_term = NoParsedTerm /\ p_clause = NoParsedClause
    /\ p_kb \in {<<>>, TenClauses} /\ p_capacity = InitialCapacity
    /\ p_n = 0 /\ p_rejected = <<>>

ParseIdle ==
    /\ p_text = <<>> /\ p_which = "off"
    /\ p_term = NoParsedTerm /\ p_clause = NoParsedClause
    /\ p_kb = <<>> /\ p_capacity = InitialCapacity
    /\ p_n = 0 /\ p_rejected = <<>>

-----------------------------------------------------------------------------
(* demo/prolog/main.c at work                                              *)

\* bound on the number of texts handed to the parser of demo/prolog/main.c
MaxMainParses == 2

\* parent(john, mary). parent(mary, tom).     parent(john, X).
T_main_facts == n_parent \o LP \o n_john \o COMMA_SP \o n_mary \o RP \o DOT
                   \o <<" ">> \o n_parent \o LP \o n_mary \o COMMA_SP \o n_tom
                   \o RP \o DOT \o <<" ">>
T_main_query == n_parent \o LP \o n_john \o COMMA_SP \o n_X \o RP \o DOT

FactTexts == {T_main_facts, T_parent_john_jim, T_male_john, T_no_close, T_no_dot,
              T_no_comma, T_var_head}
GoalTexts == {T_main_query, T_male_john, T_no_close, T_no_dot, T_X \o DOT}

NoMainResult == [status |-> "none", term |-> NoPrologTerm, k |-> 0]

\* get_next_token(); parse_term();
main_parse_term ==
    /\ m_alive /\ m_n < MaxMainParses
    /\ \E text \in TermTexts :
          /\ m_text' = text
          /\ m_term' = prolog_parse_term(TokensFrom(text, 1), 1)
    /\ m_which' = "parse_term"
    /\ m_alive' = (m_term'.status # "exit")
    /\ m_n' = m_n + 1
    /\ UNCHANGED m_database

\* main, "Loading Facts": every fact of input_buffer is parsed and added
main_load_facts ==
    /\ m_alive /\ m_n < MaxMainParses
    /\ \E text \in FactTexts :
          /\ m_text' = text
          /\ LET r == prolog_load_facts(m_database, text)
             IN /\ m_database' = r.clauses
                /\ m_alive' = (r.status # "exit")
    /\ m_which' = "load_facts"
    /\ m_n' = m_n + 1
    /\ UNCHANGED m_term

\* main, "Query Test" up to the call of resolve: the goal is parsed
main_parse_goal ==
    /\ m_alive /\ m_n < MaxMainParses
    /\ \E text \in GoalTexts :
          /\ m_text' = text
          /\ m_term' = prolog_parse_goal(TokensFrom(text, 1), 1)
    /\ m_which' = "parse_goal"
    /\ m_alive' = (m_term'.status # "exit")
    /\ m_n' = m_n + 1
    /\ UNCHANGED m_database

InitMain ==
    /\ m_text = <<>> /\ m_which = "none" /\ m_term = NoMainResult
    /\ m_database = <<>> /\ m_alive = TRUE /\ m_n = 0

MainIdle ==
    /\ m_text = <<>> /\ m_which = "off" /\ m_term = NoMainResult
    /\ m_database = <<>> /\ m_alive = TRUE /\ m_n = 0

-----------------------------------------------------------------------------
(* prolog_parser.c and prolog_db.c at work                                 *)

\* bound on the number of loader and query-parser calls
MaxLoadCalls == 2

n_percent == <<"%">>

\* p(a).   u(b).   % facts   male john.   p().
T_p_a == n_p \o LP \o n_a \o RP \o DOT
T_u_b == n_u \o LP \o n_b \o RP \o DOT
T_comment == n_percent \o <<" ">> \o n_f
T_no_parens == n_male \o <<" ">> \o n_john \o DOT
T_no_args == n_p \o LP \o RP \o DOT

\* the lines of the files loaded; the last one holds MAX_CLAUSES + 1 facts
F_put == <<T_p_a, T_u_b, T_rule_t>>
F_commented == <<T_comment, <<>>, <<" ">> \o T_male_john \o <<"\n">>, T_rule_tpu>>
F_bad_line == <<T_p_a, T_no_close, T_u_b>>
F_loose == <<T_no_comma>>
F_long == [i \in 1..(MAX_CLAUSES + 1) |-> IF i % 2 = 1 THEN T_p_a ELSE T_u_b]
Files == {F_put, F_commented, F_bad_line, F_loose, F_long}

\* male(john).   parent(john, X).   t(W).   foo(a, b, X).   ?- t(W).
\* t(W), u(W).   p().   male john.
T_q_one == T_male_john
T_q_two == n_parent \o LP \o n_john \o COMMA_SP \o n_X \o RP \o DOT
T_q_var == n_t \o LP \o n_W \o RP \o DOT
T_q_three == n_foo \o LP \o n_a \o COMMA_SP \o n_b \o COMMA_SP \o n_X \o RP \o DOT
T_q_prompt == <<"?", "-", " ">> \o T_q_var
T_q_conj == n_t \o LP \o n_W \o RP \o COMMA_SP \o n_u \o LP \o n_W \o RP \o DOT
QueryTexts == {T_q_one, T_q_two, T_q_var, T_q_three, T_q_prompt, T_q_conj,
               T_no_args, T_no_parens}

NoParsedQuery == [ok |-> FALSE, goals |-> <<>>, dangling |-> FALSE]

\* add_default_facts of main.c: five facts handed to add_clause in turn
add_default_facts(db) ==
    LET RECURSIVE from(_, _)
        from(n, acc) == IF n > Len(DefaultFacts) THEN acc
                        ELSE from(n + 1, db_add_clause(acc, DefaultFacts[n]))
    IN from(1, db)

\* load_clauses_from_file is entered and the file is opened
load_clauses_from_file_begin ==
    /\ l_pc = "idle" /\ l_n < MaxLoadCalls
    /\ \E lines \in Files : l_text' = lines
    /\ l_which' = "load_clauses_from_file"
    /\ l_pc' = "reading" /\ l_line' = 0 /\ l_added' = <<>>
    /\ l_n' = l_n + 1
    /\ UNCHANGED <<database, l_ok, l_query>>

\* fgets delivers a line: skipped, or parsed and added, or the load fails
load_clauses_from_file_line ==
    /\ l_pc = "reading" /\ l_line < Len(l_text)
    /\ l_line' = l_line + 1
    /\ LET r == load_line(l_text[l_line + 1])
       IN /\ database' = IF r.step = "add" THEN db_add_clause(database, r.clause)
                         ELSE database
          /\ l_added' = IF r.step = "add" THEN <<r.clause>> ELSE <<>>
          /\ l_pc' = IF r.step = "error" THEN "idle" ELSE "reading"
          /\ l_ok' = IF r.step = "error" THEN FALSE ELSE l_ok
    /\ UNCHANGED <<l_text, l_which, l_query, l_n>>

\* fgets meets the end of the file: the load returns true
load_clauses_from_file_end ==
    /\ l_pc = "reading" /\ l_line = Len(l_text)
    /\ l_pc' = "idle" /\ l_ok' = TRUE /\ l_added' = <<>>
    /\ UNCHANGED <<database, l_text, l_which, l_query, l_line, l_n>>

add_default_facts_call ==
    /\ l_pc = "idle" /\ l_n < MaxLoadCalls
    /\ database' = add_default_facts(database)
    /\ l_added' = DefaultFacts
    /\ l_which' = "add_default_facts"
    /\ l_n' = l_n + 1
    /\ UNCHANGED <<l_text, l_ok, l_query, l_line, l_pc>>

parse_query_string_call ==
    /\ l_pc = "idle" /\ l_n < MaxLoadCalls
    /\ \E text \in QueryTexts, ub \in DanglingOutcomes :
          /\ l_text' = text
          /\ l_query' = parse_query_string(text, ub)
    /\ l_which' = "parse_query_string"
    /\ l_added' = <<>>
    /\ l_n' = l_n + 1
    /\ UNCHANGED <<database, l_ok, l_line, l_pc>>

InitLoad ==
    /\ l_text = <<>> /\ l_which = "none" /\ l_ok = TRUE /\ l_added = <<>>
    /\ l_query = NoParsedQuery /\ l_line = 0 /\ l_pc = "idle" /\ l_n = 0

LoadIdle ==
    /\ l_text = <<>> /\ l_which = "off" /\ l_ok = TRUE /\ l_added = <<>>
    /\ l_query = NoParsedQuery /\ l_line = 0 /\ l_pc = "idle" /\ l_n = 0

-----------------------------------------------------------------------------
(* unify called on two terms with an empty trail, in both argument orders  *)

f1(t) == create_compound_term(n_f, <<t>>)
g1(t) == create_compound_term(n_g, <<t>>)
f2(s, t) == create_compound_term(n_f, <<s, t>>)

UBase == {Var(n_X), Var(n_Y), Atom(n_a), Atom(n_b)}
UArgs == UBase \cup {g1(Var(n_X)), g1(Var(n_Y))}
UTerms == UBase \cup {f1(t) : t \in UBase} \cup {g1(t) : t \in UBase}
                \cup {f2(s, t) : s \in UArgs, t \in UArgs}

NoResult == [ok |-> FALSE, sub |-> <<>>, overflow |-> FALSE]

UnifyIdle == /\ uA = Atom(n_a) /\ uB = Atom(n_a) /\ upc = "off"
             /\ uAB = NoResult /\ uBA = NoResult

InitUnify == /\ uA \in UTerms /\ uB \in UTerms
             /\ upc = "ready"
             /\ uAB = NoResult /\ uBA = NoResult

\* unify(A, B, env) and unify(B, A, env), each on a fresh empty Substitution
UnifyCall ==
    /\ upc = "ready"
    /\ uAB' = unify(uA, uB, create_substitution)
    /\ uBA' = unify(uB, uA, create_substitution)
    /\ upc' = "called"
    /\ UNCHANGED <<uA, uB>>

-----------------------------------------------------------------------------
(* demo/prolog/main.c: the Substitution list and unify                     *)

\* a node is put in front of the list
prolog_add_binding(current_sub, var_name, term) ==
    <<[variable_name |-> var_name, term |-> term]>> \o current_sub

\* the list is walked from its head: 1-based position of the first node for
\* var_name, 0 when there is none
lookup_binding(s, var_name) ==
    LET hits == {i \in 1..Len(s) : s[i].variable_name = var_name}
    IN IF hits = {} THEN 0
       ELSE CHOOSE i \in hits : \A j \in hits : i <= j

RECURSIVE dereference_term(_, _)
dereference_term(term, s) ==
    IF term.type = "TERM_VARIABLE" /\ lookup_binding(s, term.name) # 0
    THEN dereference_term(s[lookup_binding(s, term.name)].term, s)
    ELSE term

RECURSIVE occur_check(_, _, _)
\* the variable var_term occurs in term, looked at through the bindings
occur_check(var_term, term, s) ==
    IF var_term.type # "TERM_VARIABLE" THEN FALSE
    ELSE LET dereferenced_term == dereference_term(term, s)
         IN IF dereferenced_term.type = "TERM_VARIABLE"
            THEN var_term.name = dereferenced_term.name
            ELSE IF dereferenced_term.type = "TERM_STRUCTURE"
            THEN \E i \in 1..Len(dereferenced_term.args) :
                     occur_check(var_term, dereferenced_term.args[i], s)
            ELSE FALSE

RECURSIVE prolog_unify(_, _, _)
\* unify of main.c; returns [ok, sub]: the boolean result and *sub as the
\* call leaves it
prolog_unify(term1in, term2in, s) ==
    LET term1 == dereference_term(term1in, s)
        term2 == dereference_term(term2in, s)
    IN IF term1.type = "TERM_VARIABLE"
       THEN IF occur_check(term1, term2, s)
            THEN [ok |-> FALSE, sub |-> s]
            ELSE [ok |-> TRUE, sub |-> prolog_add_binding(s, term1.name, term2)]
       ELSE IF term2.type = "TERM_VARIABLE"
       THEN IF occur_check(term2, term1, s)
            THEN [ok |-> FALSE, sub |-> s]
            ELSE [ok |-> TRUE, sub |-> prolog_add_binding(s, term2.name, term1)]
       ELSE IF term1.type = "TERM_ATOM" /\ term2.type = "TERM_ATOM"
       THEN [ok |-> term1.name = term2.name, sub |-> s]
       ELSE IF term1.type = "TERM_NUMBER" /\ term2.type = "TERM_NUMBER"
       THEN [ok |-> term1.number_value = term2.number_value, sub |-> s]
       ELSE IF term1.type = "TERM_STRUCTURE" /\ term2.type = "TERM_STRUCTURE"
       THEN IF term1.name # term2.name \/ Len(term1.args) # Len(term2.args)
            THEN [ok |-> FALSE, sub |-> s]
            ELSE LET RECURSIVE args_from(_, _)
                     args_from(i, si) ==
                         IF i > Len(term1.args) THEN [ok |-> TRUE, sub |-> si]
                         ELSE LET r == prolog_unify(term1.args[i], term2.args[i], si)
                              IN IF ~r.ok THEN r
                                 ELSE args_from(i + 1, r.sub)
                 IN args_from(1, s)
       ELSE [ok |-> FALSE, sub |-> s]

-----------------------------------------------------------------------------
(* unify and restore_substitution called again and again on one trail, and *)
(* unify of main.c called again and again on one Substitution list         *)

MaxTrailCalls == 3

f3(s, t, u) == create_compound_term(n_f, <<s, t, u>>)

\* the argument pairs handed to unify of unification.c
TrailPairs ==
    { <<Var(n_X), Var(n_X)>>, <<Var(n_X), Var(n_Y)>>, <<Var(n_Y), Var(n_X)>>,
      <<Var(n_X), Atom(n_a)>>, <<Var(n_Y), Atom(n_b)>>,
      <<f2(Var(n_X), Var(n_Y)), f2(Atom(n_a), Atom(n_b))>>,
      <<f3(Var(n_X), Var(n_X), Var(n_Y)), f3(Atom(n_a), Atom(n_b), Atom(n_b))>>,
      <<Var(n_X), g1(Var(n_X))>>, <<Var(n_X), g1(Var(n_Y))>>,
      <<Var(n_Y), g1(Var(n_X))>>, <<Var(n_Z), Atom(n_a)>> }

PVar(name) == PrologTerm("TERM_VARIABLE", name, <<>>, 0)
PAtom(name) == PrologTerm("TERM_ATOM", name, <<>>, 0)
PStruct(name, args) == PrologTerm("TERM_STRUCTURE", name, args, 0)

\* the argument pairs handed to unify of main.c
EnvPairs ==
    { <<PVar(n_X), PVar(n_X)>>, <<PVar(n_X), PVar(n_Y)>>,
      <<PVar(n_Y), PVar(n_X)>>, <<PVar(n_X), PAtom(n_a)>>,
      <<PStruct(n_f, <<PVar(n_X), PVar(n_Y)>>),
        PStruct(n_f, <<PAtom(n_a), PAtom(n_b)>>)>> }

NoCall == [fn |-> "none", t1 |-> Atom(n_a), t2 |-> Atom(n_a), ok |-> FALSE,
           overflow |-> FALSE, before |-> <<>>, after |-> <<>>]

TrailIdle == /\ t_sub = <<>> /\ t_env = <<>> /\ t_call = NoCall
             /\ t_pc = "off" /\ t_n = 0

InitTrail == /\ t_sub = create_substitution /\ t_env = <<>> /\ t_call = NoCall
             /\ t_pc = "ready" /\ t_n = 0

\* unify(t1, t2, sub) of unification.c on the trail as it stands; a recursion
\* that runs out of stack ends the process
unify_call ==
    /\ t_pc = "ready" /\ t_n < MaxTrailCalls
    /\ \E pair \in TrailPairs :
         LET u == unify(pair[1], pair[2], t_sub)
         IN /\ t_sub' = u.sub
            /\ t_pc' = IF u.overflow THEN "crashed" ELSE t_pc
            /\ t_call' = [fn |-> "unify", t1 |-> pair[1], t2 |-> pair[2],
                          ok |-> u.ok, overflow |-> u.overflow,
                          before |-> t_sub, after |-> u.sub]
    /\ t_n' = t_n + 1
    /\ UNCHANGED t_env

\* restore_substitution(sub, mark) with a mark that mark_substitution
\* returned earlier: a length the trail had and has not fallen below since
restore_substitution_call ==
    /\ t_pc = "ready" /\ t_n < MaxTrailCalls
    /\ \E mark \in 0..Len(t_sub) :
         /\ t_sub' = restore_substitution(t_sub, mark)
         /\ t_call' = [fn |-> "restore_substitution", t1 |-> Atom(n_a),
                       t2 |-> Atom(n_a), ok |-> TRUE, overflow |-> FALSE,
                       before |-> t_sub, after |-> t_sub']
    /\ t_n' = t_n + 1
    /\ UNCHANGED <<t_env, t_pc>>

\* unify(term1, term2, &sub) of main.c on the list as it stands
prolog_unify_call ==
    /\ t_pc = "ready" /\ t_n < MaxTrailCalls
    /\ \E pair \in EnvPairs :
         LET u == prolog_unify(pair[1], pair[2], t_env)
         IN /\ t_env' = u.sub
            /\ t_call' = [fn |-> "prolog_unify", t1 |-> pair[1], t2 |-> pair[2],
                          ok |-> u.ok, overflow |-> FALSE,
                          before |-> t_env, after |-> u.sub]
    /\ t_n' = t_n + 1
    /\ UNCHANGED <<t_sub, t_pc>>

-----------------------------------------------------------------------------
(* add_sub_pair, dereference and apply_substitution called directly on one *)
(* Substitution; add_binding and unify_terms on one flat Substitution      *)

MaxBindCalls == 3

\* the (variable, term) pairs handed in; no variable reaches itself
BindPairs ==
    { <<n_X, Atom(n_a)>>, <<n_X, Atom(n_b)>>, <<n_X, Var(n_Y)>>,
      <<n_Y, Atom(n_a)>>, <<n_Y, Atom(n_b)>> }

n_V == <<"V">>

\* a flat Substitution after n calls of add_binding for n different variables
FilledBindings(n) ==
    [i \in 1..n |-> [variable_name |-> n_V \o FormatInt(i), term |-> Atom(n_a),
                     ref |-> <<"filled", i>>]]

NoBindCall == [fn |-> "none", var_name |-> <<>>, term |-> Atom(n_a), ok |-> FALSE,
               before |-> <<>>, after |-> <<>>, result |-> Atom(n_a)]

BindIdle == /\ b_sub = <<>> /\ b_flat = <<>> /\ b_call = NoBindCall /\ b_n = 0

InitBind == /\ b_sub = create_substitution
            /\ b_flat \in {<<>>, FilledBindings(MAX_BINDINGS - 2)}
            /\ b_call = NoBindCall /\ b_n = 0

add_sub_pair_call ==
    /\ b_n < MaxBindCalls
    /\ \E pair \in BindPairs :
         /\ b_sub' = add_sub_pair(b_sub, pair[1], pair[2])
         /\ b_call' = [fn |-> "add_sub_pair", var_name |-> pair[1],
                       term |-> pair[2], ok |-> TRUE, before |-> b_sub,
                       after |-> b_sub', result |-> Atom(n_a)]
    /\ b_n' = b_n + 1
    /\ UNCHANGED b_flat

dereference_call ==
    /\ b_n < MaxBindCalls
    /\ \E name \in {n_X, n_Y} :
         b_call' = [fn |-> "dereference", var_name |-> name, term |-> Var(name),
                    ok |-> TRUE, before |-> b_sub, after |-> b_sub,
                    result |-> dereference(Var(name), b_sub)]
    /\ b_n' = b_n + 1
    /\ UNCHANGED <<b_sub, b_flat>>

apply_substitution_call ==
    /\ b_n < MaxBindCalls
    /\ \E name \in {n_X, n_Y} :
         b_call' = [fn |-> "apply_substitution", var_name |-> name,
                    term |-> Var(name), ok |-> TRUE, before |-> b_sub,
                    after |-> b_sub,
                    result |-> apply_substitution(Var(name), b_sub)]
    /\ b_n' = b_n + 1
    /\ UNCHANGED <<b_sub, b_flat>>

add_binding_call ==
    /\ b_n < MaxBindCalls
    /\ \E pair \in BindPairs :
         /\ b_flat' = add_binding(b_flat, pair[1], pair[2], <<"arg", b_n>>)
         /\ b_call' = [fn |-> "add_binding", var_name |-> pair[1],
                       term |-> pair[2], ok |-> TRUE, before |-> b_flat,
                       after |-> b_flat', result |-> Atom(n_a)]
    /\ b_n' = b_n + 1
    /\ UNCHANGED b_sub

\* unify_terms(t1, t2, sub) with a variable t1 and a term t2, two different
\* Term objects
unify_terms_call ==
    /\ b_n < MaxBindCalls
    /\ \E pair \in BindPairs :
         LET u == unify_terms(Var(pair[1]), <<"t1", b_n>>, pair[2],
                              <<"t2", b_n>>, b_flat)
         IN /\ b_flat' = u.sub
            /\ b_call' = [fn |-> "unify_terms", var_name |-> pair[1],
                          term |-> pair[2], ok |-> u.ok, before |-> b_flat,
                          after |-> u.sub, result |-> Atom(n_a)]
    /\ b_n' = b_n + 1
    /\ UNCHANGED b_sub

-----------------------------------------------------------------------------
(* Properties of unify                                                     *)

RECURSIVE TermVars(_)
\* the variable names occurring in a term
TermVars(t) ==
    IF t.type = "VARIABLE" THEN {t.name}
    ELSE UNION {TermVars(t.args[i]) : i \in 1..Len(t.args)}

BoundVars(s) == {s[i].var_name : i \in 1..Len(s)}

\* variables that v leads to in one step: those of the terms it is bound to
StepVars(s, v) == UNION {TermVars(s[i].term) : i \in {j \in 1..Len(s) : s[j].var_name = v}}

RECURSIVE ReachFrom(_, _, _)
ReachFrom(s, seen, n) ==
    IF n = 0 THEN seen
    ELSE ReachFrom(s, seen \cup UNION {StepVars(s, w) : w \in seen}, n - 1)

\* no variable reaches, through its bindings, a term that contains it
Acyclic(s) ==
    \A v \in BoundVars(s) : v \notin ReachFrom(s, StepVars(s, v), Len(s))

\* C5: with an empty trail unify(A,B) succeeds iff unify(B,A) succeeds, and
\* applying either resulting substitution makes A and B structurally identical.
C5_UnifySymmetric ==
    upc = "called" =>
        /\ uAB.ok = uBA.ok
        /\ uAB.ok => /\ apply_substitution(uA, uAB.sub) # StackOverflow
                     /\ apply_substitution(uA, uAB.sub) = apply_substitution(uB, uAB.sub)
        /\ uBA.ok => /\ apply_substitution(uA, uBA.sub) # StackOverflow
                     /\ apply_substitution(uA, uBA.sub) = apply_substitution(uB, uBA.sub)

\* C6: unify of X with f(X), in either order and with an empty trail, returns
\* false and adds no binding for X.
C6_OccursCheckFails ==
    (upc = "called" /\ uA = Var(n_X) /\ uB = f1(Var(n_X))) =>
        /\ ~uAB.ok /\ n_X \notin BoundVars(uAB.sub)
        /\ ~uBA.ok /\ n_X \notin BoundVars(uBA.sub)

C6_Witness == upc = "called" /\ uA = Var(n_X) /\ uB = f1(Var(n_X)) /\ ~uAB.ok

\* C7: a successful unify from an (empty, hence) acyclic trail leaves the trail
\* acyclic; in particular unify(f(X,Y), f(g(Y),g(X))) fails.
C7_TrailStaysAcyclic ==
    upc = "called" =>
        /\ uAB.ok => Acyclic(uAB.sub)
        /\ (uA = f2(Var(n_X), Var(n_Y)) /\ uB = f2(g1(Var(n_Y)), g1(Var(n_X))))
              => ~uAB.ok

-----------------------------------------------------------------------------
(* Properties of resolve / resolve_query                                   *)

\* the printed bindings of every solution, without the search path
Answers(out) == [k \in 1..Len(out) |-> out[k].bindings]

Binding(var_name, term) == [var_name |-> var_name, term |-> term]

\* p comes before q in depth-first, clause-order traversal
PathBefore(p, q) ==
    \E d \in 1..Len(p) :
        /\ d <= Len(q)
        /\ p[d] < q[d]
        /\ \A e \in 1..(d - 1) : p[e] = q[e]

\* C1: solutions are emitted in depth-first order with clauses tried in
\* insertion order (a solution reached through clause i of some goal comes
\* before every solution reached through a clause j > i of that goal), and
\* with the three parent facts first in the base, parent(john, X) emits
\* exactly X = jim and then X = jane.
C1_SolutionOrder ==
    /\ \A m \in 1..Len(output) : \A n \in 1..Len(output) :
          m < n => PathBefore(output[m].path, output[n].path)
    /\ (pc = "done" /\ Len(kb) >= 3 /\ SubSeq(kb, 1, 3) = Family
           /\ query_term = Q_parent_john_X)
          => Answers(output) = << <<Binding(n_X, Atom(n_jim))>>,
                                  <<Binding(n_X, Atom(n_jane))>> >>

C1_Witness ==
    /\ pc = "done" /\ kb = Family /\ query_term = Q_parent_john_X
    /\ Len(output) = 2

\* C2: with the grandparent rule and the three parent facts, the query
\* grandparent(mary, X) yields exactly X = jim and then X = jane.
C2_GrandparentAnswers ==
    (pc = "done" /\ kb = GrandKB /\ query_term = Q_grandparent_mary_X)
        => Answers(output) = << <<Binding(n_X, Atom(n_jim))>>,
                                <<Binding(n_X, Atom(n_jane))>> >>

RECURSIVE Shape(_)
\* a term with its variable names blanked
Shape(t) ==
    IF t.type = "VARIABLE" THEN Var(<<>>)
    ELSE [t EXCEPT !.args = [i \in 1..Len(t.args) |-> Shape(t.args[i])]]

ClauseShape(c) ==
    [head |-> Shape(c.head), body |-> [j \in 1..Len(c.body) |-> Shape(c.body[j])]]

\* f is c up to a one-to-one renaming of variable names
IsRenaming(c, f) ==
    LET o == ClauseVarOccs(c)
        n == ClauseVarOccs(f)
    IN /\ ClauseShape(c) = ClauseShape(f)
       /\ Len(o) = Len(n)
       /\ \A p \in 1..Len(o) : \A q \in 1..Len(o) :
             (o[p] = o[q]) <=> (n[p] = n[q])

\* C3: every fresh instantiation made by resolve is the stored clause up to
\* a one-to-one renaming of its variables.
C3_FreshCopyIsRenaming ==
    \A k \in 1..Len(fresh_log) :
        IsRenaming(kb[fresh_log[k].i], fresh_log[k].fresh_clause)

\* C4: after every clause attempt the trail restored by restore_substitution
\* is exactly the trail at mark_substitution; the trail at the top of the
\* clause loop is the trail on entry; resolve returns with the trail it got.
C4_RestoreExact ==
    /\ restored.set => restored.after = restored.mark_sub
    /\ (pc = "running" /\ stack # <<>> /\ Top.at = "loop") => sub = Top.entry_sub
    /\ returned.set => returned.exit = returned.entry

C4_Witness ==
    /\ restored.set
    /\ Len(restored.after) > 0
    /\ Len(restored.before) > Len(restored.after)
    /\ returned.set
    /\ Len(returned.entry) > 0

\* every variable name issued so far in this query, in order of issue
IssuedNames(log) ==
    LET RECURSIVE from(_, _)
        from(k, acc) == IF k > Len(log) THEN acc
                        ELSE from(k + 1, acc \o ClauseVarOccs(log[k].fresh_clause))
    IN from(1, <<>>)

AllDifferent(seq) == Cardinality({seq[p] : p \in 1..Len(seq)}) = Len(seq)

\* C8: within one query the renaming counter never decreases, and every name
\* issued by rename_variables differs from every name issued earlier in the
\* query and from the variable names of the query.
C8_FreshNames ==
    [][ /\ (pc = "running" /\ pc' = "running") => var_counter' >= var_counter
        /\ AllDifferent(IssuedNames(fresh_log'))
        /\ {IssuedNames(fresh_log')[k] : k \in 1..Len(IssuedNames(fresh_log'))}
              \cap TermVars(query_term') = {}
      ]_vars

\* three instantiations of the recursive ancestor rule are open at once
C8_Witness ==
    /\ kb = AncestorKB /\ pc = "running"
    /\ Cardinality({k \in 1..Len(stack) :
                      stack[k].at = "call" /\ kb[stack[k].i] = AncestorRule}) >= 3

\* C9: the same query run again on the same knowledge base prints the same
\* solutions in the same order and ends with the same solution count.
C9_SameQuerySameAnswers ==
    (pc = "done" /\ run >= 2)
        => /\ Answers(output) = Answers(prev_output)
           /\ solution_count = prev_count

C9_Witness ==
    /\ pc = "done" /\ run >= 2 /\ solution_count >= 2
    /\ kb = GrandKB /\ query_term = Q_grandparent_mary_X

\* C10: every top-level query, resolve_query and query alike, starts with
\* an empty substitution and the renaming counter at its initial value.
C10_QueryStartsFresh ==
    /\ (pc = "running" /\ fresh_log = <<>>) => (sub = <<>> /\ var_counter = 0)
    /\ q_started.set => (q_started.sub_size = 0 /\ q_started.counter = 0)

\* C11: a goal that is a bare variable is reported as malformed: resolve
\* resolves no clause against it, emits no solution for it and the query does
\* not end with the plain failure indicator.
C11_BareVariableGoalReported ==
    /\ \A k \in 1..Len(stack) :
          (stack[k].goals # <<>> /\ stack[k].goals[1].type = "VARIABLE")
              => stack[k].at = "loop"
    /\ query_term.type = "VARIABLE" => (output = <<>> /\ ~said_no)

\* C14: every emitted solution lists exactly the bound variables of the
\* query, each once, and no listed term contains a variable that is bound in
\* the trail at the moment of emission.
C14_SolutionBindings ==
    \A k \in 1..Len(output) :
        LET b == output[k].bindings
            listed == {b[p].var_name : p \in 1..Len(b)}
        IN /\ listed = BoundVars(output[k].trail) \cap TermVars(query_term)
           /\ Cardinality(listed) = Len(b)
           /\ \A p \in 1..Len(b) :
                 TermVars(b[p].term) \cap BoundVars(output[k].trail) = {}

\* a solution whose query variable is bound to a variable that is itself bound
C14_Witness ==
    /\ kb = GrandKB /\ query_term = Q_grandparent_X_X
    /\ \E k \in 1..Len(output) :
          /\ output[k].bindings = <<Binding(n_X, Var(fresh_name(1)))>>
          /\ output[k].trail[1] = Binding(n_X, Var(fresh_name(0)))

\* C15: the solution count is 0 when the search starts and grows by exactly
\* one with each emitted solution; the failure indicator is printed iff the
\* count is 0 at the end; parent(pam, bob) on the parent facts and male(tom)
\* on a base holding only male(john) end with count 0 and the indicator.
C15_SolutionCount ==
    /\ pc \in {"running", "done"} => solution_count = Len(output)
    /\ pc = "done" => (said_no <=> solution_count = 0)
    /\ (pc = "done" /\ kb = Family /\ query_term = Q_parent_pam_bob)
          => (solution_count = 0 /\ said_no)
    /\ (pc = "done" /\ kb = MaleKB /\ query_term = Q_male_tom)
          => (solution_count = 0 /\ said_no)

C15_Witness ==
    /\ pc = "done" /\ kb = MaleKB /\ query_term = Q_male_tom /\ said_no
    /\ fresh_log # <<>>

ClauseVars(c) == {ClauseVarOccs(c)[p] : p \in 1..Len(ClauseVarOccs(c))}

\* C17: no step of a query changes the knowledge base (count, order, heads
\* and bodies), and the clause each attempt unifies against is a copy that
\* shares no variable with the stored clause.
C17_KnowledgeBaseReadOnly ==
    [][ /\ kb' = kb
        /\ \A k \in 1..Len(fresh_log') :
              ClauseVars(fresh_log'[k].fresh_clause)
                  \cap ClauseVars(kb[fresh_log'[k].i]) = {}
      ]_vars

\* a finished query that went through the rule and emitted solutions
C17_Witness ==
    /\ pc = "done" /\ kb = GrandKB /\ query_term = Q_grandparent_mary_X
    /\ solution_count > 0

-----------------------------------------------------------------------------
(* Properties of the parsers                                               *)

\* the clause each well-formed text stands for
ExpectedClause(text) ==
    CASE text = T_parent_john_jim -> Family[1]
      [] text = T_male_john -> MaleKB[1]
      [] text = T_rule_t ->
            create_clause(create_compound_term(n_t, <<Var(n_X)>>),
                          << create_compound_term(n_p, <<Var(n_X)>>) >>)
      [] text = T_rule_tpu ->
            create_clause(create_compound_term(n_t, <<Var(n_X)>>),
                          << create_compound_term(n_p, <<Var(n_X)>>),
                             create_compound_term(n_u, <<Var(n_X)>>) >>)

C13_ParseErrorNotFatal ==
    /\ m_alive
    /\ (m_which = "parse_term" /\ m_text \in BadTermTexts) => m_term.status = "error"
    /\ (p_which = "parse_term" /\ p_text \in BadTermTexts) => ~p_term.ok
    /\ (p_which = "parse_clause" /\ p_text \in BadClauseTexts) => ~p_clause.ok

BareNameTexts == {T_X, T_underscore, T_foo}
NameParenTexts == {T_Foo_a, T_foo_a, T_underscore_f_a, T_foo_X_y}

\* C18: a name not followed by '(' is a Variable when it begins with an
\* uppercase letter or an underscore and an Atom otherwise; a name followed
\* by '(' is a Compound whatever its first character.
C18_NameClassification ==
    /\ (p_which = "parse_term" /\ p_text \in BareNameTexts)
          => /\ p_term.ok /\ p_term.term.name = p_text
             /\ p_term.term.type = IF p_text[1] \in Upper \cup {"_"}
                                   THEN "VARIABLE" ELSE "ATOM"
    /\ (p_which = "parse_term" /\ p_text \in NameParenTexts)
          => (p_term.ok /\ p_term.term.type = "COMPOUND")
    /\ (m_which = "parse_term" /\ m_text \in BareNameTexts)
          => /\ m_term.status = "ok" /\ m_term.term.name = m_text
             /\ m_term.term.type = IF m_text[1] \in Upper \cup {"_"}
                                   THEN "TERM_VARIABLE" ELSE "TERM_ATOM"
    /\ (m_which = "parse_term" /\ m_text \in NameParenTexts)
          => (m_term.status = "ok" /\ m_term.term.type = "TERM_STRUCTURE")

\* C19: every clause parse_clause returns has a Compound or an Atom as its
\* head; a text whose head is a bare variable yields no clause.
C19_ClauseHeadNotVariable ==
    /\ p_clause.ok => p_clause.clause.head.type \in {"COMPOUND", "ATOM"}
    /\ (p_which = "parse_clause" /\ p_text \in VarHeadTexts) => ~p_clause.ok
    /\ \A i \in 1..Len(p_kb) : p_kb[i].head.type \in {"COMPOUND", "ATOM"}

\* C16: add_clause appends: after every call the store holds the clauses it
\* held before, in the same order, followed by the clause added, so the count
\* grows by one per call however many clauses are stored (knowledge_base.c
\* and prolog_db.c alike).
C16_AddClauseAppends ==
    [][ /\ ((l_line' # l_line \/ l_n' # l_n) /\ l_added' # <<>>)
           => database' = database \o l_added'
        /\ (p_which' = "add_clause" /\ p_clause.ok /\ ~p_clause'.ok)
           => p_kb' = Append(p_kb, p_clause.clause) ]_vars

\* the single well-formed goals  f(a1, ..., an).  with n >= 1 and their parse
OneGoalTexts == {T_q_one, T_q_two, T_q_var, T_q_three}
ExpectedGoal(text) ==
    IF text = T_q_one THEN fl_p(n_male, Atom(n_john))
    ELSE IF text = T_q_two THEN fl_p2(n_parent, Atom(n_john), Var(n_X))
    ELSE IF text = T_q_var THEN fl_p(n_t, Var(n_W))
    ELSE create_predicate(n_foo, <<Atom(n_a), Atom(n_b), Var(n_X)>>)

\* C20: parse_query_string accepts every goal  f(a1, ..., an).  with n >= 1
\* and returns exactly one goal, named f, holding the n arguments in order.
C20_QueryGoalParsed ==
    (l_which = "parse_query_string" /\ l_text \in OneGoalTexts)
       => (l_query.ok /\ l_query.goals = <<ExpectedGoal(l_text)>>)

RECURSIVE TrailAfterArgs(_, _, _, _)
\* the trail after the first j argument pairs of two compounds have been
\* unified in order, starting from s
TrailAfterArgs(t1, t2, s, j) ==
    IF j = 0 THEN s
    ELSE unify(t1.args[j], t2.args[j], TrailAfterArgs(t1, t2, s, j - 1)).sub

\* C21: every call of unify that returns, true or false, leaves the entries
\* the trail held before the call unchanged and in place (it only appends);
\* when two compounds of the same functor and arity fail to unify, the trail
\* is what the first failing argument pair left: the bindings of the earlier
\* pairs are still there and no later pair has been attempted.
C21_UnifyOnlyAppends ==
    (t_call.fn = "unify" /\ ~t_call.overflow) =>
        LET before == t_call.before
            after == t_call.after
            d1 == dereference(t_call.t1, before)
            d2 == dereference(t_call.t2, before)
        IN /\ Len(after) >= Len(before)
           /\ SubSeq(after, 1, Len(before)) = before
           /\ (/\ ~t_call.ok
               /\ d1.type = "COMPOUND" /\ d2.type = "COMPOUND"
               /\ d1.name = d2.name /\ Len(d1.args) = Len(d2.args))
              => \E k \in 1..Len(d1.args) :
                    /\ \A j \in 1..(k - 1) :
                          unify(d1.args[j], d2.args[j],
                                TrailAfterArgs(d1, d2, before, j - 1)).ok
                    /\ ~unify(d1.args[k], d2.args[k],
                              TrailAfterArgs(d1, d2, before, k - 1)).ok
                    /\ after = unify(d1.args[k], d2.args[k],
                                     TrailAfterArgs(d1, d2, before, k - 1)).sub

\* f(X, X, Y) against f(a, b, b) on a non-empty trail: X = a is appended, the
\* second pair fails, Y stays unbound
C21_Witness ==
    /\ t_call.fn = "unify" /\ ~t_call.ok /\ ~t_call.overflow
    /\ t_call.t1 = f3(Var(n_X), Var(n_X), Var(n_Y))
    /\ t_call.before # <<>>
    /\ t_call.after = Append(t_call.before, [var_name |-> n_X, term |-> Atom(n_a)])
    /\ n_Y \notin BoundVars(t_call.after)

\* C22: when both arguments dereference to the same unbound variable, unify
\* of unification.c and unify of main.c return true and leave the
\* substitution unchanged.
C22_SameVariableSucceeds ==
    /\ (/\ t_call.fn = "unify"
        /\ dereference(t_call.t1, t_call.before).type = "VARIABLE"
        /\ dereference(t_call.t1, t_call.before)
              = dereference(t_call.t2, t_call.before))
       => (t_call.ok /\ t_call.after = t_call.before)
    /\ (/\ t_call.fn = "prolog_unify"
        /\ dereference_term(t_call.t1, t_call.before).type = "TERM_VARIABLE"
        /\ dereference_term(t_call.t1, t_call.before)
              = dereference_term(t_call.t2, t_call.before))
       => (t_call.ok /\ t_call.after = t_call.before)

\* no variable name has two entries and no entry binds a variable to itself
TrailWellFormed(s) ==
    /\ \A i, j \in 1..Len(s) : s[i].var_name = s[j].var_name => i = j
    /\ \A i \in 1..Len(s) : s[i].term # Var(s[i].var_name)

\* C24: in every trail reached from the empty trail by calls of unify and of
\* restore_substitution to an earlier mark, and so in every trail of a
\* resolve search, no variable name has more than one live entry and no
\* variable is bound to itself.
C24_OneEntryPerVariable == TrailWellFormed(t_sub) /\ TrailWellFormed(sub)

\* a trail of two entries, one of them variable to variable, grown by a
\* successful unify after a restore_substitution or earlier calls
C24_Witness ==
    /\ t_call.fn = "unify" /\ t_call.ok /\ t_n = MaxTrailCalls
    /\ Len(t_call.before) = 1 /\ Len(t_sub) = 2
    /\ \E i \in 1..Len(t_sub) : t_sub[i].term.type = "VARIABLE"

\* 1-based index of the pair appended last for var_name, 0 when there is none
last_pair(s, var_name) ==
    LET hits == {i \in 1..Len(s) : s[i].var_name = var_name}
    IN IF hits = {} THEN 0
       ELSE CHOOSE i \in hits : \A j \in hits : i >= j

RECURSIVE MostRecentValue(_, _)
\* what a lookup gives when each variable is taken from its newest entry
MostRecentValue(term, s) ==
    IF term.type = "VARIABLE" /\ last_pair(s, term.name) # 0
    THEN MostRecentValue(s[last_pair(s, term.name)].term, s)
    ELSE term

\* C23: when the trail holds several entries for a variable, dereference and
\* apply_substitution give the value of the entry appended last.
C23_LookupMostRecent ==
    (/\ b_call.fn \in {"dereference", "apply_substitution"}
     /\ Cardinality({i \in 1..Len(b_call.before) :
                        b_call.before[i].var_name = b_call.var_name}) >= 2)
       => b_call.result = MostRecentValue(b_call.term, b_call.before)

\* C26: every call of add_sub_pair and of add_binding leaves the substitution
\* with exactly one more entry, holding the given name and term, and a
\* unify_terms that binds a variable and returns true leaves that binding in
\* the substitution.
C26_BindAlwaysAppends ==
    /\ b_call.fn = "add_sub_pair"
          => /\ Len(b_call.after) = Len(b_call.before) + 1
             /\ SubSeq(b_call.after, 1, Len(b_call.before)) = b_call.before
             /\ b_call.after[Len(b_call.after)].var_name = b_call.var_name
             /\ b_call.after[Len(b_call.after)].term = b_call.term
    /\ b_call.fn = "add_binding"
          => /\ Len(b_call.after) = Len(b_call.before) + 1
             /\ SubSeq(b_call.after, 1, Len(b_call.before)) = b_call.before
             /\ b_call.after[Len(b_call.after)].variable_name = b_call.var_name
             /\ b_call.after[Len(b_call.after)].term = b_call.term
    /\ (/\ b_call.fn = "unify_terms" /\ b_call.ok
        /\ get_binding(b_call.before, b_call.var_name) = 0)
          => get_binding(b_call.after, b_call.var_name) # 0

\* C25: prove returns true only if one assignment of the query's variables
\* satisfies every goal: with p(a). u(b). t(X) :- p(X). the goal list
\* t(W), u(W) is not proved.
C25_ChainsFollowed ==
    (qpc = "idle" /\ q_result # "none" /\ database = LoadedPUT
        /\ q_goals = << fl_p(n_t, Var(n_W)), fl_p(n_u, Var(n_W)) >>)
       => q_result = "no"

\* the goal list a clause attempt hands to the recursive call: the body of
\* the fresh clause, then the goals after the current one
BodyThenRest(fresh_clause, goals) ==
    fresh_clause.body \o SubSeq(goals, 2, Len(goals))

C28_FirstSolutionOnly ==
    [][ /\ (qpc = "proving" /\ q_ret = "true")
           => \/ (q_ret' = "true" /\ q_stack # <<>> /\ q_stack' = QPop)
              \/ (q_stack = <<>> /\ qpc' = "idle" /\ q_result' = "yes")
              \/ qpc' = "crashed"
        /\ (q_ret' = "false" /\ q_stack' # q_stack)
           => (QTop.i > Len(database) /\ q_stack' = QPop) ]_vars

\* parent(john, X) was answered from the first clause: one attempt was made
C28_Witness ==
    /\ qpc = "idle" /\ q_result = "yes" /\ database = DefaultFacts
    /\ q_goals = << fl_p2(n_parent, Atom(n_john), Var(n_X)) >>
    /\ Len(q_heap) = 2

\* C29: during query and prove no Substitution object is used after it was
\* freed and none is freed twice.
C29_NoUseAfterFree ==
    /\ ~q_uaf
    /\ \A id \in 1..Len(q_heap) : q_heap[id].frees <= 1

\* the predicate names a goal can call and a clause can answer: a variable
\* unifies with everything
GoalReaches(goal, name) == goal.type = "VARIABLE" \/ goal.name = name
ClauseDefines(clause, name) == clause.head.type = "VARIABLE" \/ clause.head.name = name

PredNames(base) ==
    {base[i].head.name : i \in 1..Len(base)}
       \cup UNION {{base[i].body[j].name : j \in 1..Len(base[i].body)} :
                      i \in 1..Len(base)}

\* the names called from the bodies of the clauses that answer a name of from
Callees(base, from) ==
    {m \in PredNames(base) :
        \E i \in 1..Len(base) :
           /\ \E n \in from : ClauseDefines(base[i], n)
           /\ \E j \in 1..Len(base[i].body) : GoalReaches(base[i].body[j], m)}

RECURSIVE CalleesClosure(_, _, _)
CalleesClosure(base, seen, n) ==
    IF n = 0 THEN seen
    ELSE CalleesClosure(base, seen \cup Callees(base, seen), n - 1)

\* no predicate is reachable from the body of one of its own rules
NonRecursive(base) ==
    \A name \in PredNames(base) :
        name \notin CalleesClosure(base, Callees(base, {name}), Len(base))

\* C30: on a knowledge base without recursive rules resolve_query terminates
\* for every query: each frame of the search moves through the clauses one
\* by one, never back, and the query ends with an empty trail.
C30_NonRecursiveTerminates ==
    /\ [][ \A k \in 1..Len(stack) :
              k <= Len(stack') =>
                 /\ stack'[k].i \in {stack[k].i, stack[k].i + 1}
                 /\ stack'[k].i <= Len(kb) + 1 ]_vars
    /\ [](pc = "done" => sub = <<>>)
    /\ ((NonRecursive(kb) /\ pc = "running") ~> (pc = "done" /\ sub = <<>>))

\* the search through the rule calling a rule has ended
C30_Witness ==
    /\ pc = "done" /\ kb = GrandViaKB /\ NonRecursive(kb)
    /\ query_term = Q_grandparent_mary_X
    /\ Len(fresh_log) > Len(kb) /\ sub = <<>>

-----------------------------------------------------------------------------
(* Specifications                                                          *)

ResolveIdle ==
    /\ kb = <<>> /\ query_term = Atom(n_a) /\ pc = "off" /\ stack = <<>>
    /\ sub = <<>> /\ var_counter = 0 /\ solution_count = 0 /\ output = <<>>
    /\ said_no = FALSE
    /\ run = 0 /\ prev_output = <<>> /\ prev_count = 0 /\ fresh_log = <<>>
    /\ restored = NoRestore /\ returned = NoReturn

QueryIdle ==
    /\ database = <<>> /\ qpc = "off" /\ q_goals = <<>> /\ q_var_counter = 0
    /\ q_stack = <<>> /\ q_ret = "none" /\ q_heap = <<>> /\ q_result = "none"
    /\ q_started = NotStarted /\ q_count = 0 /\ q_uaf = FALSE

Init == InitResolve /\ UnifyIdle /\ QueryIdle /\ ParseIdle /\ MainIdle /\ LoadIdle /\ TrailIdle /\ BindIdle

Next ==
    \/ resolve_query_begin /\ UNCHANGED <<uvars, qvars, pvars, mvars, lvars, tvars, bvars>>
    \/ resolve_solution /\ UNCHANGED <<uvars, qvars, pvars, mvars, lvars, tvars, bvars>>
    \/ resolve_unify_ok /\ UNCHANGED <<uvars, qvars, pvars, mvars, lvars, tvars, bvars>>
    \/ resolve_unify_fail /\ UNCHANGED <<uvars, qvars, pvars, mvars, lvars, tvars, bvars>>
    \/ resolve_backtrack /\ UNCHANGED <<uvars, qvars, pvars, mvars, lvars, tvars, bvars>>
    \/ resolve_return /\ UNCHANGED <<uvars, qvars, pvars, mvars, lvars, tvars, bvars>>
    \/ resolve_query_end /\ UNCHANGED <<uvars, qvars, pvars, mvars, lvars, tvars, bvars>>

Spec == Init /\ [][Next]_vars

\* resolve, the steps that follow a clause attempt: printing a solution,
\* returning to the caller's loop, leaving the loop, returning to
\* resolve_query
resolve_advance ==
    /\ resolve_solution \/ resolve_backtrack \/ resolve_return
          \/ resolve_query_end
    /\ UNCHANGED <<uvars, qvars, pvars, mvars, lvars, tvars, bvars>>

\* resolve, one pass of the for loop body, whichever way unify answers
resolve_attempt ==
    /\ resolve_unify_ok \/ resolve_unify_fail
    /\ UNCHANGED <<uvars, qvars, pvars, mvars, lvars, tvars, bvars>>

\* the for loop condition: a pending goal and a clause left to try (and room
\* under the depth bound of the model for the recursive call)
attempt_ready ==
    /\ pc = "running" /\ stack # <<>>
    /\ Top.goals # <<>> /\ Top.at = "loop" /\ Top.i <= Len(kb)
    /\ Len(stack) < MaxDepth

\* resolve runs in one thread and never waits: a step that can be taken is
\* taken.  The fairness of the clause attempt is weak fairness written out,
\* with the loop condition as its enabling condition.
SpecLive ==
    /\ Init /\ [][Next]_vars
    /\ WF_vars(resolve_advance)
    /\ ([]<>(~attempt_ready) \/ []<><<resolve_attempt>>_vars)

NextQuery ==
    \/ query_begin /\ UNCHANGED <<rvars, uvars, pvars, mvars, lvars, tvars, bvars>>
    \/ prove_base /\ UNCHANGED <<rvars, uvars, pvars, mvars, lvars, tvars, bvars>>
    \/ prove_unify_ok /\ UNCHANGED <<rvars, uvars, pvars, mvars, lvars, tvars, bvars>>
    \/ prove_unify_fail /\ UNCHANGED <<rvars, uvars, pvars, mvars, lvars, tvars, bvars>>
    \/ prove_call_failed /\ UNCHANGED <<rvars, uvars, pvars, mvars, lvars, tvars, bvars>>
    \/ prove_call_succeeded /\ UNCHANGED <<rvars, uvars, pvars, mvars, lvars, tvars, bvars>>
    \/ prove_exhausted /\ UNCHANGED <<rvars, uvars, pvars, mvars, lvars, tvars, bvars>>
    \/ query_end_no /\ UNCHANGED <<rvars, uvars, pvars, mvars, lvars, tvars, bvars>>
    \/ query_end_yes /\ UNCHANGED <<rvars, uvars, pvars, mvars, lvars, tvars, bvars>>

InitQ == InitQuery /\ ResolveIdle /\ UnifyIdle /\ ParseIdle /\ MainIdle /\ LoadIdle /\ TrailIdle /\ BindIdle

SpecQuery == InitQ /\ [][NextQuery]_vars

NextUnify == UnifyCall /\ UNCHANGED <<rvars, qvars, pvars, mvars, lvars, tvars, bvars>>

InitU == InitUnify /\ ResolveIdle /\ QueryIdle /\ ParseIdle /\ MainIdle /\ LoadIdle /\ TrailIdle /\ BindIdle

SpecUnify == InitU /\ [][NextUnify]_vars

NextParse ==
    \/ parse_term_call /\ UNCHANGED <<rvars, uvars, qvars, mvars, lvars, tvars, bvars>>
    \/ parse_clause_call /\ UNCHANGED <<rvars, uvars, qvars, mvars, lvars, tvars, bvars>>
    \/ kb_add_clause /\ UNCHANGED <<rvars, uvars, qvars, mvars, lvars, tvars, bvars>>

InitP == InitParse /\ ResolveIdle /\ UnifyIdle /\ QueryIdle /\ MainIdle /\ LoadIdle /\ TrailIdle /\ BindIdle

SpecParse == InitP /\ [][NextParse]_vars

NextMain ==
    \/ main_parse_term /\ UNCHANGED <<rvars, uvars, qvars, pvars, lvars, tvars, bvars>>
    \/ main_load_facts /\ UNCHANGED <<rvars, uvars, qvars, pvars, lvars, tvars, bvars>>
    \/ main_parse_goal /\ UNCHANGED <<rvars, uvars, qvars, pvars, lvars, tvars, bvars>>

InitM == InitMain /\ ResolveIdle /\ UnifyIdle /\ QueryIdle /\ ParseIdle /\ LoadIdle /\ TrailIdle /\ BindIdle

SpecMain == InitM /\ [][NextMain]_vars

qrest == <<qpc, q_goals, q_var_counter, q_stack, q_ret, q_heap, q_result,
           q_started, q_count, q_uaf>>

NextLoad ==
    \/ load_clauses_from_file_begin /\ UNCHANGED <<rvars, uvars, qrest, pvars, mvars, tvars, bvars>>
    \/ load_clauses_from_file_line /\ UNCHANGED <<rvars, uvars, qrest, pvars, mvars, tvars, bvars>>
    \/ load_clauses_from_file_end /\ UNCHANGED <<rvars, uvars, qrest, pvars, mvars, tvars, bvars>>
    \/ add_default_facts_call /\ UNCHANGED <<rvars, uvars, qrest, pvars, mvars, tvars, bvars>>
    \/ parse_query_string_call /\ UNCHANGED <<rvars, uvars, qvars, pvars, mvars, tvars, bvars>>

InitL == InitLoad /\ ResolveIdle /\ UnifyIdle /\ QueryIdle /\ ParseIdle /\ MainIdle /\ TrailIdle /\ BindIdle

SpecLoad == InitL /\ [][NextLoad]_vars

NextTrail ==
    \/ unify_call /\ UNCHANGED <<rvars, uvars, qvars, pvars, mvars, lvars, bvars>>
    \/ restore_substitution_call
          /\ UNCHANGED <<rvars, uvars, qvars, pvars, mvars, lvars, bvars>>
    \/ prolog_unify_call
          /\ UNCHANGED <<rvars, uvars, qvars, pvars, mvars, lvars, bvars>>

InitT == InitTrail /\ ResolveIdle /\ UnifyIdle /\ QueryIdle /\ ParseIdle /\ MainIdle /\ LoadIdle /\ BindIdle

SpecTrail == InitT /\ [][NextTrail]_vars

NextBind ==
    \/ add_sub_pair_call /\ UNCHANGED <<rvars, uvars, qvars, pvars, mvars, lvars, tvars>>
    \/ dereference_call /\ UNCHANGED <<rvars, uvars, qvars, pvars, mvars, lvars, tvars>>
    \/ apply_substitution_call
          /\ UNCHANGED <<rvars, uvars, qvars, pvars, mvars, lvars, tvars>>
    \/ add_binding_call /\ UNCHANGED <<rvars, uvars, qvars, pvars, mvars, lvars, tvars>>
    \/ unify_terms_call /\ UNCHANGED <<rvars, uvars, qvars, pvars, mvars, lvars, tvars>>

InitB == InitBind /\ ResolveIdle /\ UnifyIdle /\ QueryIdle /\ ParseIdle /\ MainIdle /\ LoadIdle /\ TrailIdle

SpecBind == InitB /\ [][NextBind]_vars

====
